---- MODULE Spec2Model ----
(***************************************************************************)
(* The chat client of the dashboard: the conversation store (chatStore and *)
(* chatActions), the chat page (ChatInterface.svelte, ChatSidebar.svelte), *)
(* the session adapter (ChatWebSocket) and the transport manager           *)
(* (WebSocketService), together with the browser sockets, timers and the   *)
(* HTTP requests they run on.                                              *)
(* Beside it, each under a specification of its own: the search store      *)
(* (stores/search.ts), the collections store (stores/collections.ts) and   *)
(* the notification store (stores/notifications.ts).                       *)
(*                                                                         *)
(* Text is a sequence of one-character strings, so that concatenation,     *)
(* prefixes and order are real.  JavaScript's null / undefined are the     *)
(* tokens Null, NoSession, Undefined and UndefinedSources.                 *)
(*                                                                         *)
(* The browser runs one task at a time: every action below is one task     *)
(* (a socket event, a timer, an HTTP response, a user gesture) together    *)
(* with the microtasks it triggers (promise reactions), which run before   *)
(* the next task.  A Svelte `$:` copy of a store field is refreshed in a   *)
(* microtask queued by the store update, hence before any later promise    *)
(* continuation reads it: the components' currentSession, messages and     *)
(* isLoading are read as the store's.                                      *)
(***************************************************************************)
EXTENDS Integers, Sequences, FiniteSets, Bags, TLC

\* ---------------------------------------------------------------- bounds
\* A run is bounded by what its environment does: the inbound frames the
\* server sends, the gestures the user makes, the sockets the network fails
\* or closes, the HTTP requests that fail, and the number of such events in
\* all.  Spec explores the page as a whole; SpecNet explores the reconnection
\* machinery alone (an idle user, a silent server, a network that fails more
\* often).
MaxFrames == 3
MaxGestures == 1
MaxFailures == 1
MaxHttpFailures == 1
MaxSearches == 3
MaxSetItemFailures == 1
MaxCollectionRequests == 2
MaxCollectionChanges == 2
MaxAdds == 3
MaxNotificationGestures == 2
MaxEvents == 3
NetMaxFailures == 3
DownMaxFailures == 6

\* ------------------------------------------------------- program constants
\* WebSocketService.maxReconnectAttempts
maxReconnectAttempts == 5
\* ChatWebSocket.maxReconnectAttempts
chatMaxReconnectAttempts == 5
reconnectDelay == 1000
\* executeSearch keeps the 49 newest entries behind the new one
historyKeep == 49

\* ------------------------------------------------------------ value tokens
NoSession == 0
Null == <<"null">>
Undefined == "undefined"
UndefinedSources == <<"undefined">>

\* Two sessions may exist at start; initializeSession and every gesture may
\* create one more.
SessionIds == 1..(3 + MaxGestures)
Fragments == {<<>>, <<"a">>, <<"b">>}
StatusTexts == {<<"searching">>}
SourceLists == {<<"s1">>}
ResponseTimes == {Undefined, "120"}
ErrorTexts == {<<"e">>}
UserTexts == {<<"q">>}
ApiErrorText == <<"Network Error">>
\* The prefix "(cross mark) Error: " of an error message, as one token.
ErrorPrefix == <<"x Error: ">>

\* ----------------------------------------------------------- text helpers
IsPrefix(s, t) == Len(s) <= Len(t) /\ SubSeq(t, 1, Len(s)) = s
IsSuffix(s, t) == Len(s) <= Len(t) /\ SubSeq(t, Len(t) - Len(s) + 1, Len(t)) = s
Last(s) == s[Len(s)]

\* ================================================================ chatStore
\* ChatState; a session is represented by its id alone.
initialStreaming ==
    [isStreaming |-> FALSE, currentContent |-> <<>>, statusMessage |-> <<>>,
     sources |-> <<>>]

initialState ==
    [currentSession |-> NoSession, sessions |-> <<>>, messages |-> <<>>,
     isLoading |-> FALSE, connectionStatus |-> "disconnected",
     streaming |-> initialStreaming, lastError |-> Null]

setConnectionStatus(state, status) == [state EXCEPT !.connectionStatus = status]

setStatusMessage_clears(state, message) ==
    [state EXCEPT !.streaming.statusMessage = message,
                  !.streaming.currentContent = <<>>]

setStatusMessage(state, message) ==
    [state EXCEPT !.streaming.statusMessage = message]

setCurrentSources(state, sources) == [state EXCEPT !.streaming.sources = sources]

appendStreamingContent_prepend(state, content) ==
    [state EXCEPT !.streaming.isStreaming = TRUE,
                  !.streaming.currentContent = content \o @]

appendStreamingContent(state, content) ==
    [state EXCEPT !.streaming.isStreaming = TRUE,
                  !.streaming.currentContent = @ \o content]

\* metadata = [response_time_ms, sources]; `""` and null are falsy, `[]` is not.
finalizeStreamingMessage(state, metadata) ==
    IF state.streaming.currentContent # <<>> /\ state.currentSession # NoSession
    THEN [state EXCEPT
            !.messages = Append(@,
                [id |-> "msg", session_id |-> state.currentSession,
                 role |-> "assistant",
                 content |-> state.streaming.currentContent,
                 response_time_ms |-> metadata.response_time_ms,
                 sources |-> IF metadata.sources # UndefinedSources
                             THEN metadata.sources
                             ELSE state.streaming.sources]),
            !.streaming = initialStreaming,
            !.isLoading = FALSE]
    ELSE state

addErrorMessage(state, error) ==
    IF state.currentSession # NoSession
    THEN [state EXCEPT
            !.messages = Append(@,
                [id |-> "error", session_id |-> state.currentSession,
                 role |-> "assistant", content |-> ErrorPrefix \o error,
                 response_time_ms |-> Undefined, sources |-> UndefinedSources]),
            !.streaming = initialStreaming,
            !.isLoading = FALSE,
            !.lastError = error]
    ELSE state

\* addUserMessage(content): throws "No active session" before touching the
\* store when there is no current session, otherwise appends the temporary
\* message in one store update and returns (nothing is awaited).
addUserMessageThrows(state) == state.currentSession = NoSession

addUserMessage_unchecked(state, content) ==
    [state EXCEPT
        !.messages = Append(@,
            [id |-> "temp", session_id |-> state.currentSession, role |-> "user",
             content |-> content, response_time_ms |-> Undefined,
             sources |-> UndefinedSources])]

addUserMessage(state, content) ==
    IF addUserMessageThrows(state) THEN state
    ELSE [state EXCEPT
            !.messages = Append(@,
                [id |-> "temp", session_id |-> state.currentSession,
                 role |-> "user", content |-> content,
                 response_time_ms |-> Undefined, sources |-> UndefinedSources])]

RemoveId(seq, id) == SelectSeq(seq, LAMBDA s : s # id)


\* ============================================================ wire frames
\* An inbound frame {type, data, timestamp}, with the parts of `data` the
\* page reads: the text (status text, content fragment, error text), the
\* source list and the response time.
Frame(type, text, sources, rt) ==
    [type |-> type, text |-> text, sources |-> sources, response_time_ms |-> rt]

Frames ==
    {Frame(t, <<>>, UndefinedSources, Undefined) : t \in {"connected", "pong", "unknown"}}
    \cup {Frame("status", x, UndefinedSources, Undefined) : x \in StatusTexts}
    \cup {Frame("context", <<>>, src, Undefined) : src \in SourceLists \cup {UndefinedSources}}
    \cup {Frame("content", x, UndefinedSources, Undefined) : x \in Fragments}
    \cup {Frame("complete", <<>>, src, rt) :
            src \in SourceLists \cup {UndefinedSources}, rt \in ResponseTimes}
    \cup {Frame("error", x, UndefinedSources, Undefined) : x \in ErrorTexts}

\* Two more payloads a socket can receive: a text that is not JSON, and the
\* JSON text `null`, which parses to a message without properties.
Garbage == Frame("(not JSON)", <<>>, UndefinedSources, Undefined)
NullFrame == Frame("(null)", <<>>, UndefinedSources, Undefined)
Payloads == Frames \cup {Garbage, NullFrame}

\* JSON.parse(event.data) returns a message or throws.
Parses(payload) == payload # Garbage

\* ================================================= ChatInterface: inbound
\* The page state one handler call works on: the store, the page's isTyping,
\* the notifications the running task has raised, and the record of what was
\* delivered (obs), which the code does not read.
\*   obs.delivered     the content payloads handed to the page since the last
\*                     `complete` or `error` event, concatenated in arrival order
\*   obs.startedEmpty  whether the streaming buffer was empty at that event
ObserveEvent(obs, message, chatAfter) ==
    CASE message.type = "content" ->
            [obs EXCEPT !.delivered = @ \o message.text]
      [] message.type \in {"complete", "error"} ->
            [delivered |-> <<>>,
             startedEmpty |-> chatAfter.streaming.currentContent = <<>>]
      [] OTHER -> obs

ErrorNotification(title) == [type |-> "error", title |-> title]
SuccessNotification(title) == [type |-> "success", title |-> title]

handleWebSocketMessage(w, message) ==
    LET chatAfter ==
            CASE message.type = "status" -> setStatusMessage(w.chat, message.text)
              [] message.type = "context" ->
                    IF message.sources # UndefinedSources
                    THEN setCurrentSources(w.chat, message.sources)
                    ELSE w.chat
              [] message.type = "content" ->
                    appendStreamingContent(w.chat, message.text)
              [] message.type = "complete" ->
                    finalizeStreamingMessage(w.chat,
                        [response_time_ms |-> message.response_time_ms,
                         sources |-> message.sources])
              [] message.type = "error" -> addErrorMessage(w.chat, message.text)
              [] OTHER -> w.chat
    IN [w EXCEPT
        !.chat = chatAfter,
        !.isTyping = CASE message.type = "content" -> TRUE
                       [] message.type \in {"complete", "error"} -> FALSE
                       [] OTHER -> w.isTyping,
        !.notified = IF message.type = "error"
                     THEN Append(w.notified, ErrorNotification("Chat Error"))
                     ELSE w.notified,
        !.obs = ObserveEvent(w.obs, message, chatAfter)]

\* The handler ChatWebSocket.connect registers: `pong` is swallowed, every
\* other frame is forwarded to the page (the adapter's own reaction to
\* `connected` is in ChatOnConnected).  Reading wsMessage.type of the message
\* null throws a TypeError before anything else is done.
ChatWebSocketHandler(w, message) ==
    CASE message = NullFrame -> [w EXCEPT !.threw = TRUE]
      [] message.type = "pong" -> w
      [] OTHER -> handleWebSocketMessage(w, message)

RECURSIVE handleMessage_stop(_, _, _)
handleMessage_stop(w, handlers, message) ==
    IF handlers = <<>> THEN w
    ELSE LET w1 == ChatWebSocketHandler([w EXCEPT !.invoked = @ + 1], message)
         IN IF w1.threw THEN [w1 EXCEPT !.threw = FALSE]
            ELSE handleMessage_stop(w1, Tail(handlers), message)

RECURSIVE handleMessage(_, _, _)
\* WebSocketService.handleMessage: every registered handler of the path is
\* called with the frame, in registration order, each call in its own
\* try/catch.  All handlers of one adapter are ChatWebSocketHandler closures
\* over the same page callback.
handleMessage(w, handlers, message) ==
    IF handlers = <<>> THEN w
    ELSE LET w1 == ChatWebSocketHandler([w EXCEPT !.invoked = @ + 1], message)
         IN handleMessage([w1 EXCEPT !.threw = FALSE], Tail(handlers), message)

\* ws.onmessage: JSON.parse and handleMessage in one try/catch.
onmessage(w, handlers, payload) ==
    IF Parses(payload) THEN handleMessage(w, handlers, payload) ELSE w


\* ============================================================ search store
\* stores/search.ts: the search history and its copy in localStorage.
\*
\* A JSON value, as far as the history code tells values apart: an array
\* with its items, or an object, null, a number, the empty string.
JArray(items) == [kind |-> "array", items |-> items]
JOther(kind) == [kind |-> kind, items |-> <<>>]
NotLists == {JOther("object"), JOther("null"), JOther("number"), JOther("string")}

\* What localStorage.getItem('search_history') returns: null (no such key),
\* the empty text, a text JSON.parse rejects, or the text of a JSON value.
StoredText(kind, value) == [kind |-> kind, value |-> value]
Absent == StoredText("absent", JOther("null"))
EmptyText == StoredText("empty", JOther("null"))
GarbageText == StoredText("garbage", JOther("null"))
JSONstringify(value) == StoredText("json", value)
JSONparseThrows(text) == text.kind # "json"
JSONparse(text) == text.value

\* A SearchHistoryItem: id and timestamp are Date.now() at the response.
HistoryItem(id, query) == [id |-> id, query |-> query]

\* The queries a user can have typed: nothing, blanks, a term.
Queries == {"", " ", "q"}
Trim(query) == IF query = " " THEN "" ELSE query

\* results and currentResponse are set together: NoResults stands for []
\* with whatever response was shown before, ResponseOf(call) for the results
\* of the response to the call of that number.
NoResults == 0
ResponseOf(call) == call

searchInitialState ==
    [query |-> "", loading |-> FALSE, error |-> "null", results |-> NoResults,
     history |-> JArray(<<>>)]

\* Module initialisation, lines 73-84: a stored text that is truthy and
\* parses becomes the history, whatever value it parses to.
LoadHistory(state, savedHistory) ==
    IF savedHistory.kind \in {"absent", "empty"} THEN state
    ELSE IF JSONparseThrows(savedHistory) THEN state
    ELSE [state EXCEPT !.history = JSONparse(savedHistory)]

\* setQuery(query)
setQuery(state, query) == [state EXCEPT !.query = query, !.error = "null"]

\* executeSearch before the request: refused for a blank query.
SearchRefused(state) == Trim(state.query) = ""
BeginSearch(state) ==
    [state EXCEPT !.loading = TRUE, !.error = "null", !.results = NoResults]

\* state.history.slice(0, 49) is a TypeError unless the history is an array
\* or a string.
SliceThrows(history) == history.kind \notin {"array", "string"}
Take(seq, n) == IF Len(seq) <= n THEN seq ELSE SubSeq(seq, 1, n)

NewHistory_unbounded(historyItem, history) == <<historyItem>> \o history.items

\* [historyItem, ...state.history.slice(0, 49)]
NewHistory(historyItem, history) ==
    <<historyItem>> \o Take(history.items, historyKeep)

\* executeSearch's catch block
SearchFailed(state, errorMessage) ==
    [state EXCEPT !.loading = FALSE, !.error = errorMessage, !.results = NoResults]

\* executeSearch after api.search has answered: the history update, which
\* writes localStorage inside a try/catch of its own (setItemOk tells
\* whether the write is accepted); an exception of the update itself lands
\* in executeSearch's catch block.
SearchAnswered(state, savedHistory, query, response, now, setItemOk) ==
    IF SliceThrows(state.history)
    THEN [state |-> SearchFailed(state, "TypeError"), saved |-> savedHistory,
          completed |-> FALSE]
    ELSE LET newHistory == NewHistory(HistoryItem(now, query), state.history) IN
         [state |-> [state EXCEPT !.loading = FALSE, !.results = response,
                                  !.history = JArray(newHistory),
                                  !.query = query],
          saved |-> IF setItemOk THEN JSONstringify(JArray(newHistory))
                    ELSE savedHistory,
          completed |-> TRUE]

\* clearHistory()
clearHistory(state) == [state EXCEPT !.history = JArray(<<>>)]


\* ===================================================== stores/collections.ts
\* A Collection as far as the store looks at it: its name, and rev for the
\* rest of its fields (what collection_updated changes).
CollectionNames == {"a", "b"}
Collection(name, rev) == [name |-> name, rev |-> rev]
NoCollection == Collection("null", 0)

\* The frames of the /collections path.
CollectionMessage(type, data) == [type |-> type, data |-> data]
CollectionMessageTypes ==
    {"collection_created", "collection_deleted", "collection_updated",
     "collection_stats"}

initialCollectionState ==
    [collections |-> <<>>, selectedCollection |-> NoCollection,
     loading |-> FALSE, error |-> "null", operationInProgress |-> "null"]

\* state.collections.filter((c) => c.name !== name)
WithoutName(collections, name) ==
    SelectSeq(collections, LAMBDA c : c.name # name)

\* state.collections.map((c) => c.name === data.name ? {...c, ...data} : c)
MergedInto(collections, data) ==
    [i \in 1..Len(collections) |->
        IF collections[i].name = data.name THEN data ELSE collections[i]]

\* handleWebSocketMessage of the collections store (collection_stats only
\* touches the statistics cache).
collectionsHandleWebSocketMessage(state, message) ==
    CASE message.type = "collection_created" ->
            [state EXCEPT !.collections = Append(@, message.data)]
      [] message.type = "collection_deleted" ->
            [state EXCEPT
                !.collections = WithoutName(@, message.data.name),
                !.selectedCollection =
                    IF @.name = message.data.name THEN NoCollection ELSE @]
      [] message.type = "collection_updated" ->
            [state EXCEPT
                !.collections = MergedInto(@, message.data),
                !.selectedCollection =
                    IF @.name = message.data.name THEN message.data ELSE @]
      [] OTHER -> state

\* loadCollections(): before the request, and after it has settled.
loadCollections_begin(state) ==
    [state EXCEPT !.loading = TRUE, !.error = "null"]
loadCollections_ok(state, collections) ==
    [state EXCEPT !.collections = collections, !.loading = FALSE]
loadCollections_failed(state) ==
    [state EXCEPT !.error = "Failed to load collections", !.loading = FALSE]

\* createCollection(data): before the request, and after it has settled.
createCollection_begin(state) ==
    [state EXCEPT !.operationInProgress = "create", !.error = "null"]
createCollection_ok(state, collection) ==
    [state EXCEPT !.collections = Append(@, collection),
                  !.operationInProgress = "null"]
createCollection_failed(state) ==
    [state EXCEPT !.error = "Failed to create collection",
                  !.operationInProgress = "null"]

\* refresh(): operationInProgress around loadCollections.
refresh_begin(state) ==
    loadCollections_begin([state EXCEPT !.operationInProgress = "refresh"])
refresh_end(state) == [state EXCEPT !.operationInProgress = "null"]

\* ==================================================== stores/notifications.ts
maxNotifications == 5
animationTime == 300
successDuration == 4000

\* The durations add() is called with: 0 (persistent) or a positive time.
Durations == {0, successDuration}

Notification(id, duration) == [id |-> id, duration |-> duration, dismissed |-> FALSE]

\* The pending setTimeout callbacks of the store, in the order they were
\* set: the auto-dismiss of a notification (registered in timeoutHandlers
\* under its id), the delayed removal after dismiss(id), the delayed
\* clean-up after dismissAll().
NotificationTimer(kind, id, delay) == [kind |-> kind, id |-> id, delay |-> delay]

\* A timer set later with a delay at least as long cannot fire earlier.
CanFire(pendingTimers, i) ==
    \A j \in 1..(i - 1) : pendingTimers[j].delay > pendingTimers[i].delay

RemoveAt(seq, i) == SubSeq(seq, 1, i - 1) \o SubSeq(seq, i + 1, Len(seq))

\* clearAutoDismiss(id): clearTimeout of the id's auto-dismiss, if any.
clearAutoDismiss(pendingTimers, id) ==
    SelectSeq(pendingTimers, LAMBDA t : ~(t.kind = "auto" /\ t.id = id))

RECURSIVE clearAutoDismissAll(_, _)
clearAutoDismissAll(pendingTimers, list) ==
    IF list = <<>> THEN pendingTimers
    ELSE clearAutoDismissAll(clearAutoDismiss(pendingTimers, Head(list).id),
                             Tail(list))

\* setAutoDismiss(notification)
setAutoDismiss(pendingTimers, notification) ==
    IF notification.duration > 0
    THEN Append(pendingTimers,
                NotificationTimer("auto", notification.id, notification.duration))
    ELSE pendingTimers

\* The effect of each action on net = [list, timers]: the store's
\* notifications and the pending timers.
\* add(title, options)
notificationsAdd(net, notification) ==
    LET newNotifications == Append(net.list, notification)
        n == Len(newNotifications)
        over == n > maxNotifications
        excess == IF over THEN SubSeq(newNotifications, 1, n - maxNotifications)
                  ELSE <<>>
        kept == IF over
                THEN SubSeq(newNotifications, n - maxNotifications + 1, n)
                ELSE newNotifications
    IN [list |-> kept,
        timers |-> setAutoDismiss(clearAutoDismissAll(net.timers, excess),
                                  notification)]

\* dismiss(id)
notificationsDismiss(net, id) ==
    [list |-> [i \in 1..Len(net.list) |->
                  IF net.list[i].id = id
                  THEN [net.list[i] EXCEPT !.dismissed = TRUE]
                  ELSE net.list[i]],
     timers |-> Append(clearAutoDismiss(net.timers, id),
                       NotificationTimer("remove", id, animationTime))]

\* The callback dismiss(id) has set: the notification is taken out.
notificationsFilterOut(list, id) == SelectSeq(list, LAMBDA n : n.id # id)

\* The callback dismissAll() has set: `notifications: []`.
dismissAllCleanup(list) == <<>>

\* dismissAll()
notificationsDismissAll(net) ==
    [list |-> [i \in 1..Len(net.list) |-> [net.list[i] EXCEPT !.dismissed = TRUE]],
     timers |-> Append(clearAutoDismissAll(net.timers, net.list),
                       NotificationTimer("removeAll", 0, animationTime))]

\* remove(id)
notificationsRemove(net, id) ==
    [list |-> notificationsFilterOut(net.list, id),
     timers |-> clearAutoDismiss(net.timers, id)]

\* clear()
notificationsClear(net) ==
    [list |-> <<>>, timers |-> clearAutoDismissAll(net.timers, net.list)]

\* ================================================================== state
VARIABLES
    chat,            \* chatStore's ChatState
    isTyping,        \* ChatInterface.isTyping
    isConnected,     \* ChatInterface.isConnected
    chatWebSocket,   \* ChatInterface.chatWebSocket: an adapter, or NoAdapter (null)
    page,            \* "mounted" or "destroyed" (after onDestroy)
    adapters,        \* the ChatWebSocket objects, each with its own WebSocketService
    sockets,         \* bag of browser sockets that are not closed yet
    timers,          \* bag of pending setTimeout callbacks (reconnects)
    pending,         \* HTTP requests in flight
    serverSessions,  \* the backend's sessions, most recently updated first
    createdIds,      \* number of session ids handed out so far
    lastSessionId,   \* localStorage['chat_last_session_id'], or NoSession
    budget,          \* what the environment may still do: [frames, gestures, failures, events]
    obs,             \* record of the delivered content (see ObserveEvent)
    notified,        \* notifications the last task raised
    searchState,     \* stores/search.ts: the SearchState (the fields below)
    savedHistory,    \* localStorage['search_history']
    searches,        \* executeSearch calls waiting for api.search
    searchEnv,       \* Date.now(), what may still happen to the search page, and
                     \* the number of the call issued last (not read by the code)
    collectionsStore,    \* stores/collections.ts: the CollectionState
    collectionsSocket,   \* wsConnected, the /collections socket and the
                         \* frames on their way to it
    collectionsBackend,  \* the backend's collections and the requests sent
    collectionsEnv,      \* what may still happen to the collections page
    notificationsStore,  \* stores/notifications.ts: state.notifications
    notificationTimers,  \* the store's pending setTimeout callbacks
    notificationsEnv     \* ids handed out and what the user may still do

chatVars == <<chat, isTyping, isConnected, chatWebSocket, page, adapters,
              sockets, timers, pending, serverSessions, createdIds,
              lastSessionId, budget, obs, notified>>
searchVars == <<searchState, savedHistory, searches, searchEnv>>
collectionsVars == <<collectionsStore, collectionsSocket, collectionsBackend,
                     collectionsEnv>>
notificationsVars == <<notificationsStore, notificationTimers, notificationsEnv>>
vars == <<chatVars, searchVars, collectionsVars, notificationsVars>>

\* What a step of one page leaves alone.
besideChat == <<searchVars, collectionsVars, notificationsVars>>
besideSearch == <<chatVars, collectionsVars, notificationsVars>>
besideCollections == <<chatVars, searchVars, notificationsVars>>
besideNotifications == <<chatVars, searchVars, collectionsVars>>

\* The search page is not in use: the store as created, nothing stored.
SearchAtRest ==
    /\ searchState = searchInitialState
    /\ savedHistory = Absent
    /\ searches = {}
    /\ searchEnv = [now |-> 1, searches |-> 0, setItemFailures |-> 0,
                    issued |-> 0]

\* The collections page is not in use: the store as created, no socket.
Gone == 0 - 1
CollectionsAtRest ==
    /\ collectionsStore = initialCollectionState
    /\ collectionsSocket = [wsConnected |-> FALSE, st |-> "none", inbound |-> <<>>]
    /\ collectionsBackend = [collections |-> [n \in CollectionNames |-> Gone],
                             requests |-> {}]
    /\ collectionsEnv = [initialized |-> TRUE, requests |-> 0, changes |-> 0]

\* No notification has been raised in the store.
NotificationsAtRest ==
    /\ notificationsStore = <<>>
    /\ notificationTimers = <<>>
    /\ notificationsEnv = [nextId |-> 1, adds |-> 0, gestures |-> 0]

NoAdapter == 0
\* connectWebSocket runs once on mount and once per "new session" gesture.
AdapterIds == 1..(1 + MaxGestures)

\* The entry of WebSocketService.connections for the adapter's path: the
\* socket registered there (named by the handler it was opened with and by
\* who opened it), or none.
NoConn == [h |-> 0, origin |-> "none"]

\* A ChatWebSocket with its private WebSocketService, which serves the one
\* path /chat/<sessionId>:
\*   reconnectAttempts  ChatWebSocket.reconnectAttempts
\*   pingInterval       keepalive intervals of the adapter that are set and not
\*                      cleared (this.pingInterval holds the id of the last one)
\*   calls              ChatWebSocket.connect calls so far; call k registers
\*                      handler closure k
\*   conn               connections.get(endpoint)
\*   handlers           handlers.get(endpoint) (absent = empty)
\*   attempts           WebSocketService.reconnectAttempts.get(endpoint)
\*                      (absent = 0, as the code reads it with `|| 0`)
\*   sinceOpen          reconnect attempts made for the path since its last
\*                      successful open or explicit connect (not read by the code)
\*   made               reconnect attempts the transport's own loop has made
\*                      for the path since its last successful open (not read
\*                      by the code)
FreeAdapter ==
    [used |-> FALSE, sessionId |-> NoSession, reconnectAttempts |-> 0,
     pingInterval |-> 0, calls |-> 0, conn |-> NoConn, handlers |-> <<>>,
     attempts |-> 0, sinceOpen |-> 0, made |-> 0]

Socket(a, h, origin, st) == [ad |-> a, h |-> h, origin |-> origin, st |-> st]
Min(x, y) == IF x <= y THEN x ELSE y

\* WebSocketService: reconnectDelay * Math.pow(2, attempts)
TransportDelay_linear(attempts) == reconnectDelay * (attempts + 1)

TransportDelay(attempts) == reconnectDelay * 2^attempts

\* ChatWebSocket: Math.min(1000 * Math.pow(2, this.reconnectAttempts), 30000)
ChatDelay_uncapped(reconnectAttempts) == 1000 * 2^reconnectAttempts

ChatDelay(reconnectAttempts) == Min(1000 * 2^reconnectAttempts, 30000)

\* The pending setTimeout callbacks of the two reconnect loops, with the
\* values their closures captured and the delay they were set with.
TransportTimer(a, attempts, h) ==
    [kind |-> "transport", ad |-> a, attempts |-> attempts, h |-> h,
     delay |-> TransportDelay(attempts)]
AdapterTimer(a, delay) ==
    [kind |-> "adapter", ad |-> a, attempts |-> 0, h |-> 0, delay |-> delay]

One(x) == SetToBag({x})

\* ====================================================== WebSocketService
\* The operators below work on net = [adapters, sockets, timers].

\* isConnected(endpoint): a registered socket is always OPEN in this model,
\* because a socket leaves the map in the task that closes it.
TransportIsConnected(net, a) == net.adapters[a].conn # NoConn

\* disconnect(endpoint)
TransportDisconnect(net, a) ==
    LET c == net.adapters[a].conn IN
    IF c # NoConn
    THEN [net EXCEPT
            !.sockets = (@ (-) One(Socket(a, c.h, c.origin, "open")))
                        (+) One(Socket(a, c.h, c.origin, "closing")),
            !.adapters[a].conn = NoConn,
            !.adapters[a].handlers = <<>>,
            !.adapters[a].attempts = 0]
    ELSE net

\* connect(endpoint, onMessage) up to `new WebSocket(wsUrl)`; the callbacks
\* it installs are the Socket* actions.
TransportConnect(net, a, h, origin) ==
    LET n1 == TransportDisconnect(net, a) IN
    [n1 EXCEPT !.sockets = @ (+) One(Socket(a, h, origin, "connecting"))]

\* attemptReconnect(endpoint, onMessage)
TransportAttemptReconnect(net, a, h) ==
    LET attempts == net.adapters[a].attempts IN
    IF attempts < maxReconnectAttempts
    THEN [net EXCEPT !.timers = @ (+) One(TransportTimer(a, attempts, h))]
    ELSE [net EXCEPT !.adapters[a].attempts = 0]

\* ws.onclose: the path's entry is deleted whichever socket is closing, and a
\* code other than 1000 starts a reconnect.
TransportOnClose(net, s, code) ==
    LET n1 == [net EXCEPT !.adapters[s.ad].conn = NoConn] IN
    IF code # 1000 THEN TransportAttemptReconnect(n1, s.ad, s.h) ELSE n1

\* ========================================================== ChatWebSocket
\* attemptReconnect(onMessage)
ChatAttemptReconnect(net, a) ==
    IF net.adapters[a].reconnectAttempts >= chatMaxReconnectAttempts
    THEN net
    ELSE LET n == net.adapters[a].reconnectAttempts + 1 IN
         [net EXCEPT !.adapters[a].reconnectAttempts = n,
                     !.timers = @ (+) One(AdapterTimer(a, ChatDelay(n)))]

\* stopPing(): clearInterval(this.pingInterval) if one is stored
stopPing(ad) == [ad EXCEPT !.pingInterval = 0]

\* startPing(): stopPing(), then setInterval(..., 30000)
startPing_keep(ad) == [ad EXCEPT !.pingInterval = @ + 1]

startPing(ad) == [stopPing(ad) EXCEPT !.pingInterval = @ + 1]

\* disconnect(): stopPing, then the transport's disconnect
ChatDisconnect(net, a) ==
    TransportDisconnect([net EXCEPT !.adapters[a] = stopPing(@)], a)

\* connect(onMessage) up to the transport's connect: a new handler closure
ChatConnect(net, a, origin) ==
    LET n1 == [net EXCEPT !.adapters[a].calls = @ + 1] IN
    TransportConnect(n1, a, n1.adapters[a].calls, origin)

\* The adapter's own reaction to a `connected` frame, once per handler:
\* reconnectAttempts = 0 and startPing().
RECURSIVE OnConnected_keep(_, _)
OnConnected_keep(ad, n) ==
    IF n = 0 THEN ad ELSE OnConnected_keep(startPing(ad), n - 1)

RECURSIVE OnConnected(_, _)
OnConnected(ad, n) ==
    IF n = 0 THEN ad
    ELSE OnConnected(startPing([ad EXCEPT !.reconnectAttempts = 0]), n - 1)

ChatOnConnected(net, a, message) ==
    IF message.type = "connected"
    THEN [net EXCEPT !.adapters[a] = OnConnected(@, Len(@.handlers))]
    ELSE net

\* An adapter nothing refers to any more (no socket, no timer, no interval,
\* not the page's) is garbage; its slot is cleared.
Collect(net, ref) ==
    [net EXCEPT !.adapters =
        [a \in AdapterIds |->
            IF /\ a # ref
               /\ net.adapters[a].pingInterval = 0
               /\ \A s \in BagToSet(net.sockets) : s.ad # a
               /\ \A t \in BagToSet(net.timers) : t.ad # a
            THEN FreeAdapter
            ELSE net.adapters[a]]]

Net == [adapters |-> adapters, sockets |-> sockets, timers |-> timers]
SetNet(net, ref) ==
    LET n == Collect(net, ref) IN
    /\ adapters' = n.adapters
    /\ sockets' = n.sockets
    /\ timers' = n.timers

FreeAdapters(net, ref) ==
    {a \in AdapterIds : Collect(net, ref).adapters[a] = FreeAdapter}


\* ===================================================== chatActions (HTTP)
\* The store updates of the asynchronous chatActions, before and after their
\* awaited HTTP call.
BeginLoading(state) == [state EXCEPT !.isLoading = TRUE, !.lastError = Null]

FailLoading(state) == [state EXCEPT !.lastError = ApiErrorText, !.isLoading = FALSE]

createNewSession_ok(state, session) ==
    [state EXCEPT !.currentSession = session,
                  !.sessions = <<session>> \o @,
                  !.messages = <<>>,
                  !.isLoading = FALSE]

loadSession_ok(state, session, messages) ==
    [state EXCEPT !.currentSession = session,
                  !.messages = messages,
                  !.isLoading = FALSE]

loadSessions_ok(state, list) == [state EXCEPT !.sessions = list]

deleteSession_ok_list(state, sessionId) ==
    [state EXCEPT !.sessions = RemoveId(@, sessionId)]

deleteSession_ok(state, sessionId) ==
    [state EXCEPT
        !.sessions = RemoveId(@, sessionId),
        !.currentSession = IF @ = sessionId THEN NoSession ELSE @,
        !.messages = IF state.currentSession = sessionId THEN <<>> ELSE @]

\* What GET /chat/sessions/<id>/messages may return for a session.
ServerHistories(id) ==
    {<<>>,
     <<[id |-> "srv", session_id |-> id, role |-> "user", content |-> <<"q">>,
        response_time_ms |-> Undefined, sources |-> UndefinedSources]>>}

InSeq(x, seq) == \E i \in 1..Len(seq) : seq[i] = x

Request(op, id, by) == [op |-> op, id |-> id, by |-> by]

\* ======================================================= outbound frames
\* WebSocketService.send(endpoint, message): the payload put on the wire, or
\* nothing (a warning) when the path has no open socket.  A message that has
\* truthy `type` and `data` goes out as it is, anything else is wrapped.
OutMessage(type) == [type |-> type, data |-> "object", timestamp |-> Undefined]

TransportSend_unchecked(net, a, message) ==
    <<IF message.type # Undefined /\ message.data # Undefined
      THEN message
      ELSE [type |-> "message", data |-> "object", timestamp |-> "now"]>>

TransportSend(net, a, message) ==
    IF TransportIsConnected(net, a)
    THEN <<IF message.type # Undefined /\ message.data # Undefined
           THEN message
           ELSE [type |-> "message", data |-> "object", timestamp |-> "now"]>>
    ELSE <<>>

\* ChatWebSocket.sendMessage(message) and ping(): what reaches the wire.
SendMessageFrames(net, a) == TransportSend(net, a, OutMessage("message"))
PingFrames(net, a) == TransportSend(net, a, OutMessage("ping"))
\* ChatWebSocket.sendTypingIndicator(isTyping)
TypingFrames(net, a) == TransportSend(net, a, OutMessage("typing"))
\* What the next tick of an adapter's keepalive interval puts on the wire:
\* startPing's callback calls ping() only if isConnected().
TickFrames(net, a) ==
    IF net.adapters[a].pingInterval > 0 /\ TransportIsConnected(net, a)
    THEN PingFrames(net, a) ELSE <<>>

\* ====================================================== ChatInterface
\* connectWebSocket(sessionId): a new ChatWebSocket replaces the page's
\* reference (the old one is not touched here) and connects.
connectWebSocket(net, sessionId) ==
    LET a == CHOOSE x \in FreeAdapters(net, NoAdapter) :
                 \A y \in FreeAdapters(net, NoAdapter) : x <= y
        n1 == [net EXCEPT !.adapters[a] =
                   [FreeAdapter EXCEPT !.used = TRUE, !.sessionId = sessionId]]
    IN [net |-> ChatConnect(n1, a, "page"), adapter |-> a]

CanConnect(net) == FreeAdapters(net, NoAdapter) # {}

\* onMount, after initializeSession has resolved:
\*   if (currentSession) connectWebSocket(currentSession.id)
MountConnect(state) ==
    IF state.currentSession # NoSession
    THEN /\ CanConnect(Net)
         /\ LET c == connectWebSocket(Net, state.currentSession) IN
            /\ chatWebSocket' = c.adapter
            /\ SetNet(c.net, c.adapter)
    ELSE /\ chatWebSocket' = chatWebSocket
         /\ SetNet(Net, chatWebSocket)

\* handleNewSession's continuation, after createNewSession has resolved:
\*   if (chatWebSocket) chatWebSocket.disconnect();
\*   if (currentSession) connectWebSocket(currentSession.id)
NewSessionConnect(state) ==
    LET n1 == IF chatWebSocket # NoAdapter
              THEN ChatDisconnect(Net, chatWebSocket) ELSE Net
    IN IF state.currentSession # NoSession
       THEN /\ CanConnect(n1)
            /\ LET c == connectWebSocket(n1, state.currentSession) IN
               /\ chatWebSocket' = c.adapter
               /\ SetNet(c.net, c.adapter)
       ELSE /\ chatWebSocket' = chatWebSocket
            /\ SetNet(n1, chatWebSocket)

NetUnchanged == UNCHANGED <<chatWebSocket, adapters, sockets, timers>>

\* The environment's moves (frames the server sends, gestures of the user,
\* failures of the network) are bounded per kind and in total.
Spend(kind) ==
    /\ budget[kind] > 0 /\ budget.events > 0
    /\ budget' = [budget EXCEPT ![kind] = @ - 1, !.events = @ - 1]

\* ------------------------------------------------------- HTTP responses
\* A request that fails (no answer, or an error status) is one of the
\* failures the network may produce.
HttpOutcome(ok) ==
    IF ok THEN UNCHANGED budget ELSE Spend("httpFailures")

\* ChatInterface's sessionId prop, which App never passes: null.
PropSessionId == NoSession

SessionToLoad_first(sessionId, last, sessions) ==
    IF sessionId # NoSession THEN sessionId
    ELSE IF sessions # <<>> THEN sessions[1] ELSE NoSession

\* initializeSession(sessionId), after initialize: the session it loads, or
\* NoSession when it creates one.
SessionToLoad(sessionId, last, sessions) ==
    IF sessionId # NoSession THEN sessionId
    ELSE IF last # NoSession /\ InSeq(last, sessions) THEN last
    ELSE IF sessions # <<>> THEN sessions[1] ELSE NoSession

\* GET /chat/sessions answers.  For the sidebar's onMount a failure raises
\* "Load Failed".  For chatActions.initialize a failure is stored in
\* lastError, isLoading is cleared, and initializeSession goes on: it picks
\* the remembered session if it is in the list, else the first session, and
\* loads it; with no session it creates one.
LoadSessionsResponse(r, ok) ==
    /\ UNCHANGED besideChat
    /\ r \in pending
    /\ HttpOutcome(ok)
    /\ r.op = "loadSessions"
    /\ LET s1 == IF ok THEN loadSessions_ok(chat, serverSessions) ELSE chat IN
       IF r.by = "sidebarMount"
       THEN /\ chat' = s1
            /\ pending' = pending \ {r}
            /\ notified' = IF ok THEN <<>> ELSE <<ErrorNotification("Load Failed")>>
       ELSE LET s2 == [(IF ok THEN s1 ELSE [s1 EXCEPT !.lastError = ApiErrorText])
                          EXCEPT !.isLoading = FALSE]
                sessionToLoad == SessionToLoad(PropSessionId, lastSessionId, s2.sessions)
            IN /\ chat' = BeginLoading(s2)
               /\ pending' = (pending \ {r}) \cup
                     {IF sessionToLoad # NoSession
                      THEN Request("load", sessionToLoad, "init")
                      ELSE Request("create", NoSession, "init")}
               /\ notified' = <<>>
    /\ NetUnchanged
    /\ UNCHANGED <<isTyping, isConnected, page, serverSessions, createdIds,
                   lastSessionId, obs>>

\* rememberLastSession(sessionId): localStorage.setItem of the fixed key
\* (a write the storage rejects is not modelled).
rememberLastSession_skip(stored, sessionId) == stored

rememberLastSession(stored, sessionId) == sessionId

\* POST /chat/sessions answers (createNewSession).  On success the session
\* becomes current and is remembered; then the caller goes on: onMount
\* connects, handleNewSession disconnects the old adapter and connects.
CreateSessionResponse(r, ok) ==
    /\ UNCHANGED besideChat
    /\ r \in pending
    /\ HttpOutcome(ok)
    /\ r.op = "create"
    /\ pending' = pending \ {r}
    /\ notified' = <<>>
    /\ IF ok
       THEN /\ createdIds + 1 \in SessionIds
            /\ LET session == createdIds + 1
                   s1 == createNewSession_ok(chat, session)
               IN /\ chat' = s1
                  /\ serverSessions' = <<session>> \o serverSessions
                  /\ createdIds' = session
                  /\ lastSessionId' = rememberLastSession(lastSessionId, session)
                  /\ IF r.by = "init" THEN MountConnect(s1) ELSE NewSessionConnect(s1)
       ELSE /\ chat' = FailLoading(chat)
            /\ NetUnchanged
            /\ UNCHANGED <<serverSessions, createdIds, lastSessionId>>
    /\ UNCHANGED <<isTyping, isConnected, page, obs>>

\* GET /chat/sessions/<id> and its messages answer (loadSession).  On
\* success the session becomes current with the server's transcript and is
\* remembered; onMount then connects, the sidebar dispatches `sessionChanged`,
\* which nothing listens to.  On failure the sidebar raises "Load Failed".
LoadSessionResponse(r, ok, history) ==
    /\ UNCHANGED besideChat
    /\ r \in pending
    /\ HttpOutcome(ok)
    /\ r.op = "load"
    /\ pending' = pending \ {r}
    /\ IF ok
       THEN /\ InSeq(r.id, serverSessions)
            /\ history \in ServerHistories(r.id)
            /\ LET s1 == loadSession_ok(chat, r.id, history) IN
               /\ chat' = s1
               /\ lastSessionId' = rememberLastSession(lastSessionId, r.id)
               /\ IF r.by = "init" THEN MountConnect(s1) ELSE NetUnchanged
            /\ notified' = <<>>
       ELSE /\ history = <<>>
            /\ chat' = FailLoading(chat)
            /\ notified' = IF r.by = "sidebar"
                           THEN <<ErrorNotification("Load Failed")>> ELSE <<>>
            /\ NetUnchanged
            /\ UNCHANGED lastSessionId
    /\ UNCHANGED <<isTyping, isConnected, page, serverSessions, createdIds, obs>>

\* DELETE /chat/sessions/<id> answers (ChatSidebar.deleteSession after the
\* confirming click).  After the store update the sidebar asks for a new
\* session if its currentSession, re-read from the store, is the deleted one.
DeleteSessionResponse(r, ok) ==
    /\ UNCHANGED besideChat
    /\ r \in pending
    /\ HttpOutcome(ok)
    /\ r.op = "delete"
    /\ IF ok
       THEN LET s1 == deleteSession_ok(chat, r.id) IN
            /\ serverSessions' = RemoveId(serverSessions, r.id)
            /\ IF s1.currentSession = r.id
               THEN /\ chat' = BeginLoading(s1)
                    /\ pending' = (pending \ {r}) \cup
                                      {Request("create", NoSession, "page")}
               ELSE /\ chat' = s1
                    /\ pending' = pending \ {r}
            /\ notified' = <<SuccessNotification("Deleted")>>
       ELSE /\ chat' = chat
            /\ pending' = pending \ {r}
            /\ notified' = <<ErrorNotification("Delete Failed")>>
            /\ UNCHANGED serverSessions
    /\ NetUnchanged
    /\ UNCHANGED <<isTyping, isConnected, page, createdIds, lastSessionId, obs>>

\* ------------------------------------------------------- user gestures
CanGesture == page = "mounted"
Gesture == Spend("gestures")

\* The "New conversation" buttons: handleNewSession starts createNewSession.
HandleNewSession ==
    /\ UNCHANGED besideChat
    /\ CanGesture
    /\ Gesture
    /\ Request("create", NoSession, "page") \notin pending
    /\ chat' = BeginLoading(chat)
    /\ pending' = pending \cup {Request("create", NoSession, "page")}
    /\ notified' = <<>>
    /\ NetUnchanged
    /\ UNCHANGED <<isTyping, isConnected, page, serverSessions, createdIds,
                   lastSessionId, obs>>

\* A click on a session of the sidebar's list: selectSession starts loadSession
\* unless the session is already current.
SelectSession(sessionId) ==
    /\ UNCHANGED besideChat
    /\ CanGesture
    /\ Gesture
    /\ InSeq(sessionId, chat.sessions)
    /\ chat.currentSession # sessionId
    /\ Request("load", sessionId, "sidebar") \notin pending
    /\ chat' = BeginLoading(chat)
    /\ pending' = pending \cup {Request("load", sessionId, "sidebar")}
    /\ notified' = <<>>
    /\ NetUnchanged
    /\ UNCHANGED <<isTyping, isConnected, page, serverSessions, createdIds,
                   lastSessionId, obs>>

\* The confirming click on a session's delete button.
DeleteSession(sessionId) ==
    /\ UNCHANGED besideChat
    /\ CanGesture
    /\ Gesture
    /\ InSeq(sessionId, chat.sessions)
    /\ Request("delete", sessionId, "sidebar") \notin pending
    /\ pending' = pending \cup {Request("delete", sessionId, "sidebar")}
    /\ notified' = <<>>
    /\ NetUnchanged
    /\ UNCHANGED <<chat, isTyping, isConnected, page, serverSessions, createdIds,
                   lastSessionId, obs>>

\* handleSendMessage's guard: if (!currentSession || !isConnected || isLoading) return
SendRefused == chat.currentSession = NoSession \/ ~isConnected \/ chat.isLoading

\* handleSendMessage(message): refused without a current session, while
\* isConnected is false or while isLoading; otherwise the user message is
\* added to the store and chatWebSocket.sendMessage hands it to the transport.
HandleSendMessage(message) ==
    /\ UNCHANGED besideChat
    /\ CanGesture
    /\ Gesture
    /\ notified' = <<>>
    /\ IF SendRefused
       THEN chat' = chat
       ELSE chat' = addUserMessage(chat, message)
    /\ NetUnchanged
    /\ UNCHANGED <<isTyping, isConnected, page, pending, serverSessions,
                   createdIds, lastSessionId, obs>>

\* onDestroy: if (chatWebSocket) chatWebSocket.disconnect().  Explored when no
\* HTTP request is in flight.
Destroy ==
    /\ UNCHANGED besideChat
    /\ CanGesture /\ pending = {}
    /\ Gesture
    /\ page' = "destroyed"
    /\ notified' = <<>>
    /\ chatWebSocket' = chatWebSocket
    /\ SetNet(IF chatWebSocket # NoAdapter
              THEN ChatDisconnect(Net, chatWebSocket) ELSE Net, chatWebSocket)
    /\ UNCHANGED <<chat, isTyping, isConnected, pending, serverSessions,
                   createdIds, lastSessionId, obs>>


\* --------------------------------------------------------- socket events
\* invoked counts the handler calls of the task, threw tells whether the
\* running handler call has thrown; the code reads neither.
PageState ==
    [chat |-> chat, isTyping |-> isTyping, notified |-> <<>>, obs |-> obs,
     invoked |-> 0, threw |-> FALSE]

Replace(bag, old, new) == (bag (-) One(old)) (+) One(new)

\* ws.onopen: the socket is registered for the path, the path's attempt
\* counter is set to 0, the handler is added, and connect's promise resolves.
\* For the connect that connectWebSocket started, the page then sets
\* isConnected and the store's connectionStatus.
SocketOpen(s) ==
    /\ UNCHANGED besideChat
    /\ s \in BagToSet(sockets) /\ s.st = "connecting"
    /\ LET n1 == [Net EXCEPT
                    !.sockets = Replace(@, s, [s EXCEPT !.st = "open"]),
                    !.adapters[s.ad].conn = [h |-> s.h, origin |-> s.origin],
                    !.adapters[s.ad].attempts = 0,
                    !.adapters[s.ad].handlers = Append(@, s.h),
                    !.adapters[s.ad].sinceOpen = 0,
                    !.adapters[s.ad].made = 0]
       IN SetNet(n1, chatWebSocket)
    /\ IF s.origin = "page"
       THEN /\ isConnected' = TRUE
            /\ chat' = setConnectionStatus(chat, "connected")
       ELSE UNCHANGED <<isConnected, chat>>
    /\ notified' = <<>>
    /\ UNCHANGED <<isTyping, chatWebSocket, page, pending, serverSessions,
                   createdIds, lastSessionId, budget, obs>>

\* A failed handshake: the browser fires `error` (connect's promise rejects)
\* and then `close` with code 1006 in one task.  The rejection runs
\*   - for connectWebSocket's connect: ChatWebSocket.connect's catch
\*     (attemptReconnect, rethrow), then the page's catch (isConnected =
\*     false, "disconnected", the "Connection Failed" notification);
\*   - for a connect from the adapter's timer: ChatWebSocket.connect's catch
\*     (attemptReconnect, rethrow), then the timer's own catch
\*     (attemptReconnect again);
\*   - for the transport's own reconnect: a log line.
SocketFail(s) ==
    /\ UNCHANGED besideChat
    /\ s \in BagToSet(sockets) /\ s.st = "connecting"
    /\ Spend("failures")
    /\ LET n0 == [Net EXCEPT !.sockets = @ (-) One(s)]
           n1 == CASE s.origin = "page" -> ChatAttemptReconnect(n0, s.ad)
                   [] s.origin = "adapter" ->
                        ChatAttemptReconnect(ChatAttemptReconnect(n0, s.ad), s.ad)
                   [] OTHER -> n0
       IN SetNet(TransportOnClose(n1, s, 1006), chatWebSocket)
    /\ IF s.origin = "page"
       THEN /\ isConnected' = FALSE
            /\ chat' = setConnectionStatus(chat, "disconnected")
            /\ notified' = <<ErrorNotification("Connection Failed")>>
       ELSE /\ UNCHANGED <<isConnected, chat>>
            /\ notified' = <<>>
    /\ UNCHANGED <<isTyping, chatWebSocket, page, pending, serverSessions,
                   createdIds, lastSessionId, obs>>

\* An open socket is lost: `close` with a code other than 1000.
SocketCloseAbnormal(s) ==
    /\ UNCHANGED besideChat
    /\ s \in BagToSet(sockets) /\ s.st = "open"
    /\ Spend("failures")
    /\ SetNet(TransportOnClose([Net EXCEPT !.sockets = @ (-) One(s)], s, 1006),
              chatWebSocket)
    /\ notified' = <<>>
    /\ UNCHANGED <<chat, isTyping, isConnected, chatWebSocket, page, pending,
                   serverSessions, createdIds, lastSessionId, obs>>

\* The server closes an open socket normally: `close` with code 1000.
SocketCloseNormal(s) ==
    /\ UNCHANGED besideChat
    /\ s \in BagToSet(sockets) /\ s.st = "open"
    /\ Spend("failures")
    /\ SetNet(TransportOnClose([Net EXCEPT !.sockets = @ (-) One(s)], s, 1000),
              chatWebSocket)
    /\ notified' = <<>>
    /\ UNCHANGED <<chat, isTyping, isConnected, chatWebSocket, page, pending,
                   serverSessions, createdIds, lastSessionId, obs>>

\* The `close` event of a socket the client closed with ws.close(1000, ...).
SocketClosed(s) ==
    /\ UNCHANGED besideChat
    /\ s \in BagToSet(sockets) /\ s.st = "closing"
    /\ SetNet(TransportOnClose([Net EXCEPT !.sockets = @ (-) One(s)], s, 1000),
              chatWebSocket)
    /\ notified' = <<>>
    /\ UNCHANGED <<chat, isTyping, isConnected, chatWebSocket, page, pending,
                   serverSessions, createdIds, lastSessionId, budget, obs>>

\* ws.onmessage: a payload that parses is handed to the handlers of the
\* socket's path (whether or not this socket is the registered one).
SocketMessage(s, message) ==
    /\ UNCHANGED besideChat
    /\ s \in BagToSet(sockets) /\ s.st = "open"
    /\ Spend("frames")
    /\ LET w == onmessage(PageState, adapters[s.ad].handlers, message) IN
       /\ chat' = w.chat
       /\ isTyping' = w.isTyping
       /\ notified' = w.notified
       /\ obs' = w.obs
    /\ SetNet(ChatOnConnected(Net, s.ad, message), chatWebSocket)
    /\ UNCHANGED <<isConnected, chatWebSocket, page, pending, serverSessions,
                   createdIds, lastSessionId>>

\* ---------------------------------------------------------------- timers
\* The callback WebSocketService.attemptReconnect scheduled: the counter is
\* set to the value read at scheduling time plus one, then connect.
TransportReconnectTimer(t) ==
    /\ UNCHANGED besideChat
    /\ t \in BagToSet(timers) /\ t.kind = "transport"
    /\ LET n1 == [Net EXCEPT !.timers = @ (-) One(t),
                             !.adapters[t.ad].attempts = t.attempts + 1,
                             !.adapters[t.ad].sinceOpen = @ + 1,
                             !.adapters[t.ad].made = @ + 1]
       IN SetNet(TransportConnect(n1, t.ad, t.h, "transport"), chatWebSocket)
    /\ notified' = <<>>
    /\ UNCHANGED <<chat, isTyping, isConnected, chatWebSocket, page, pending,
                   serverSessions, createdIds, lastSessionId, budget, obs>>

\* The callback ChatWebSocket.attemptReconnect scheduled: this.connect.
ChatReconnectTimer(t) ==
    /\ UNCHANGED besideChat
    /\ t \in BagToSet(timers) /\ t.kind = "adapter"
    /\ LET n1 == [Net EXCEPT !.timers = @ (-) One(t),
                             !.adapters[t.ad].sinceOpen = @ + 1]
       IN SetNet(ChatConnect(n1, t.ad, "adapter"), chatWebSocket)
    /\ notified' = <<>>
    /\ UNCHANGED <<chat, isTyping, isConnected, chatWebSocket, page, pending,
                   serverSessions, createdIds, lastSessionId, budget, obs>>

\* A tick of the keepalive interval startPing set that finds the path not
\* connected: stopPing().  (A tick that finds it connected transmits
\* PingFrames and changes no state.)
PingTick(a) ==
    /\ UNCHANGED besideChat
    /\ adapters[a].pingInterval > 0
    /\ ~TransportIsConnected(Net, a)
    /\ SetNet([Net EXCEPT !.adapters[a] = stopPing(@)], chatWebSocket)
    /\ notified' = <<>>
    /\ UNCHANGED <<chat, isTyping, isConnected, chatWebSocket, page, pending,
                   serverSessions, createdIds, lastSessionId, budget, obs>>

\* ========================================================== specification
\* The state when the chat page has mounted: the sidebar's onMount has
\* started loadSessions, the page's onMount has started initializeSession
\* (initialize has set isLoading and started its own loadSessions).
Init ==
    /\ chat = BeginLoading(initialState)
    /\ isTyping = FALSE
    /\ isConnected = FALSE
    /\ chatWebSocket = NoAdapter
    /\ page = "mounted"
    /\ adapters = [a \in AdapterIds |-> FreeAdapter]
    /\ sockets = EmptyBag
    /\ timers = EmptyBag
    /\ pending = {Request("loadSessions", NoSession, "sidebarMount"),
                  Request("loadSessions", NoSession, "init")}
    /\ \/ serverSessions = <<>> /\ lastSessionId = NoSession
       \/ serverSessions = <<2, 1>> /\ lastSessionId = 1
    /\ createdIds = Len(serverSessions)
    /\ budget = [frames |-> MaxFrames, gestures |-> MaxGestures,
                 failures |-> MaxFailures, httpFailures |-> MaxHttpFailures,
                 events |-> MaxEvents]
    /\ obs = [delivered |-> <<>>, startedEmpty |-> TRUE]
    /\ notified = <<>>
    /\ SearchAtRest
    /\ CollectionsAtRest
    /\ NotificationsAtRest

Next ==
    \/ \E r \in pending, ok \in BOOLEAN : LoadSessionsResponse(r, ok)
    \/ \E r \in pending, ok \in BOOLEAN : CreateSessionResponse(r, ok)
    \/ \E r \in pending, ok \in BOOLEAN :
            \E history \in ServerHistories(r.id) : LoadSessionResponse(r, ok, history)
    \/ \E r \in pending, ok \in BOOLEAN : DeleteSessionResponse(r, ok)
    \/ HandleNewSession
    \/ \E id \in SessionIds : SelectSession(id)
    \/ \E id \in SessionIds : DeleteSession(id)
    \/ \E m \in UserTexts : HandleSendMessage(m)
    \/ Destroy
    \/ \E s \in BagToSet(sockets) : SocketOpen(s)
    \/ \E s \in BagToSet(sockets) : SocketFail(s)
    \/ \E s \in BagToSet(sockets) : SocketCloseAbnormal(s)
    \/ \E s \in BagToSet(sockets) : SocketCloseNormal(s)
    \/ \E s \in BagToSet(sockets) : SocketClosed(s)
    \/ \E s \in BagToSet(sockets), m \in Payloads : SocketMessage(s, m)
    \/ \E t \in BagToSet(timers) : TransportReconnectTimer(t)
    \/ \E t \in BagToSet(timers) : ChatReconnectTimer(t)
    \/ \E a \in AdapterIds : PingTick(a)

Spec == Init /\ [][Next]_vars

\* The reconnection machinery alone: the page has mounted with a remembered
\* session on the server, the user makes no gesture and the server sends no
\* frame, while the network fails or closes sockets up to NetMaxFailures times.
InitNet ==
    /\ chat = BeginLoading(initialState)
    /\ isTyping = FALSE
    /\ isConnected = FALSE
    /\ chatWebSocket = NoAdapter
    /\ page = "mounted"
    /\ adapters = [a \in AdapterIds |-> FreeAdapter]
    /\ sockets = EmptyBag
    /\ timers = EmptyBag
    /\ pending = {Request("loadSessions", NoSession, "sidebarMount"),
                  Request("loadSessions", NoSession, "init")}
    /\ serverSessions = <<2, 1>> /\ lastSessionId = 1
    /\ createdIds = Len(serverSessions)
    /\ budget = [frames |-> 0, gestures |-> 0, failures |-> NetMaxFailures,
                 httpFailures |-> 0, events |-> NetMaxFailures]
    /\ obs = [delivered |-> <<>>, startedEmpty |-> TRUE]
    /\ notified = <<>>
    /\ SearchAtRest
    /\ CollectionsAtRest
    /\ NotificationsAtRest

NextNet ==
    \/ \E r \in pending : LoadSessionsResponse(r, TRUE)
    \/ \E r \in pending :
            \E history \in ServerHistories(r.id) : LoadSessionResponse(r, TRUE, history)
    \/ \E s \in BagToSet(sockets) : SocketOpen(s)
    \/ \E s \in BagToSet(sockets) : SocketFail(s)
    \/ \E s \in BagToSet(sockets) : SocketCloseAbnormal(s)
    \/ \E s \in BagToSet(sockets) : SocketCloseNormal(s)
    \/ \E s \in BagToSet(sockets) : SocketClosed(s)
    \/ \E t \in BagToSet(timers) : TransportReconnectTimer(t)
    \/ \E t \in BagToSet(timers) : ChatReconnectTimer(t)

SpecNet == InitNet /\ [][NextNet]_vars

\* The same page while the chat server is down: no socket ever opens, every
\* handshake that ends fails, up to DownMaxFailures times, so that both
\* reconnect loops run to their limits.
InitDown ==
    /\ chat = BeginLoading(initialState)
    /\ isTyping = FALSE
    /\ isConnected = FALSE
    /\ chatWebSocket = NoAdapter
    /\ page = "mounted"
    /\ adapters = [a \in AdapterIds |-> FreeAdapter]
    /\ sockets = EmptyBag
    /\ timers = EmptyBag
    /\ pending = {Request("loadSessions", NoSession, "sidebarMount"),
                  Request("loadSessions", NoSession, "init")}
    /\ serverSessions = <<2, 1>> /\ lastSessionId = 1
    /\ createdIds = Len(serverSessions)
    /\ budget = [frames |-> 0, gestures |-> 0, failures |-> DownMaxFailures,
                 httpFailures |-> 0, events |-> DownMaxFailures]
    /\ obs = [delivered |-> <<>>, startedEmpty |-> TRUE]
    /\ notified = <<>>
    /\ SearchAtRest
    /\ CollectionsAtRest
    /\ NotificationsAtRest

NextDown ==
    \/ \E r \in pending : LoadSessionsResponse(r, TRUE)
    \/ \E r \in pending :
            \E history \in ServerHistories(r.id) : LoadSessionResponse(r, TRUE, history)
    \/ \E s \in BagToSet(sockets) : SocketFail(s)
    \/ \E t \in BagToSet(timers) : TransportReconnectTimer(t)
    \/ \E t \in BagToSet(timers) : ChatReconnectTimer(t)

SpecDown == InitDown /\ [][NextDown]_vars

\* ------------------------------------------------------------ search page
\* The chat page is not in use.
ChatAtRest ==
    /\ chat = initialState
    /\ isTyping = FALSE
    /\ isConnected = FALSE
    /\ chatWebSocket = NoAdapter
    /\ page = "unmounted"
    /\ adapters = [a \in AdapterIds |-> FreeAdapter]
    /\ sockets = EmptyBag
    /\ timers = EmptyBag
    /\ pending = {}
    /\ serverSessions = <<>> /\ lastSessionId = NoSession
    /\ createdIds = 0
    /\ budget = [frames |-> 0, gestures |-> 0, failures |-> 0,
                 httpFailures |-> 0, events |-> 0]
    /\ obs = [delivered |-> <<>>, startedEmpty |-> TRUE]
    /\ notified = <<>>

\* A history an earlier visit has stored, newest first.
OldHistory(n) == [i \in 1..n |-> HistoryItem(1 - i, "old")]
HistoryLengths == {0, 1, historyKeep, historyKeep + 1}

\* What the browser may hold under 'search_history' when the module loads.
StoredTexts ==
    {Absent, EmptyText, GarbageText}
    \cup {JSONstringify(v) : v \in NotLists}
    \cup {JSONstringify(JArray(OldHistory(n))) : n \in HistoryLengths}

\* The user types into the search box.
SetQuery(query) ==
    /\ query # searchState.query
    /\ searchState' = setQuery(searchState, query)
    /\ UNCHANGED <<savedHistory, searches, searchEnv>>
    /\ UNCHANGED besideSearch

\* executeSearch() up to `await api.search`: a blank query is refused with a
\* notification, otherwise the request is sent.
ExecuteSearch ==
    /\ searchEnv.searches > 0
    /\ IF SearchRefused(searchState)
       THEN /\ searchEnv' = [searchEnv EXCEPT !.searches = @ - 1]
            /\ UNCHANGED <<searchState, searches>>
       ELSE /\ searchEnv' = [searchEnv EXCEPT !.searches = @ - 1,
                                              !.issued = searchEnv.searches]
            /\ searchState' = BeginSearch(searchState)
            /\ searches' = searches \cup
                    {[query |-> searchState.query, call |-> searchEnv.searches]}
    /\ UNCHANGED savedHistory
    /\ UNCHANGED besideSearch

\* api.search settles: executeSearch's continuation or its catch block.
SearchResponse(c, ok, setItemOk) ==
    /\ c \in searches
    /\ searches' = searches \ {c}
    /\ ~setItemOk => /\ ok /\ ~SliceThrows(searchState.history)
                     /\ searchEnv.setItemFailures > 0
    /\ IF ok
       THEN LET r == SearchAnswered(searchState, savedHistory, c.query,
                                    ResponseOf(c.call), searchEnv.now,
                                    setItemOk)
            IN /\ searchState' = r.state
               /\ savedHistory' = r.saved
               /\ searchEnv' = [searchEnv EXCEPT
                      !.now = @ + 1,
                      !.setItemFailures = IF setItemOk THEN @ ELSE @ - 1]
       ELSE /\ searchState' = SearchFailed(searchState, "Search failed")
            /\ UNCHANGED <<savedHistory, searchEnv>>
    /\ UNCHANGED besideSearch

\* clearHistory(): the history is emptied and the key removed.
ClearHistory ==
    /\ searchState' = clearHistory(searchState)
    /\ savedHistory' = Absent
    /\ UNCHANGED <<searches, searchEnv>>
    /\ UNCHANGED besideSearch

\* The search page from the moment stores/search.ts has been loaded.
InitSearch ==
    /\ ChatAtRest
    /\ CollectionsAtRest
    /\ NotificationsAtRest
    /\ savedHistory \in StoredTexts
    /\ searchState = LoadHistory(searchInitialState, savedHistory)
    /\ searches = {}
    /\ searchEnv = [now |-> 1, searches |-> MaxSearches,
                    setItemFailures |-> MaxSetItemFailures, issued |-> 0]

NextSearch ==
    \/ \E query \in Queries : SetQuery(query)
    \/ ExecuteSearch
    \/ \E c \in searches, ok \in BOOLEAN, setItemOk \in BOOLEAN :
            SearchResponse(c, ok, setItemOk)
    \/ ClearHistory

SpecSearch == InitSearch /\ [][NextSearch]_vars

\* ------------------------------------------------------- collections page
\* The backend keeps, per name, the rev of the collection or Gone.  Its
\* list is served in name order; a change is broadcast as a frame to the
\* /collections socket if that socket is open.
NameOrder == <<"a", "b">>

RECURSIVE ListFrom(_, _)
ListFrom(collections, names) ==
    IF names = <<>> THEN <<>>
    ELSE (IF collections[Head(names)] = Gone THEN <<>>
          ELSE <<Collection(Head(names), collections[Head(names)])>>)
         \o ListFrom(collections, Tail(names))

Broadcast(socket, message) ==
    IF socket.st = "open"
    THEN [socket EXCEPT !.inbound = Append(@, message)]
    ELSE socket

CollectionsRequest(op, name, by) ==
    [op |-> op, name |-> name, by |-> by, phase |-> "sent", ok |-> FALSE,
     body |-> <<>>]

\* initialize(): loading is set, then loadCollections() sets it again and
\* sends GET /collections/.
InitializeCollections ==
    /\ ~collectionsEnv.initialized
    /\ collectionsEnv' = [collectionsEnv EXCEPT !.initialized = TRUE]
    /\ collectionsStore' =
            loadCollections_begin(loadCollections_begin(collectionsStore))
    /\ collectionsBackend' = [collectionsBackend EXCEPT
            !.requests = @ \cup {CollectionsRequest("load", "", "initialize")}]
    /\ UNCHANGED collectionsSocket
    /\ UNCHANGED besideCollections

\* refresh() up to the request of loadCollections().
RefreshCollections ==
    /\ collectionsEnv.initialized /\ collectionsEnv.requests > 0
    /\ collectionsEnv' = [collectionsEnv EXCEPT !.requests = @ - 1]
    /\ collectionsStore' = refresh_begin(collectionsStore)
    /\ collectionsBackend' = [collectionsBackend EXCEPT
            !.requests = @ \cup {CollectionsRequest("load", "", "refresh")}]
    /\ UNCHANGED collectionsSocket
    /\ UNCHANGED besideCollections

\* createCollection(data) up to POST /collections/.
CreateCollection(name) ==
    /\ collectionsEnv.initialized /\ collectionsEnv.requests > 0
    /\ collectionsEnv' = [collectionsEnv EXCEPT !.requests = @ - 1]
    /\ collectionsStore' = createCollection_begin(collectionsStore)
    /\ collectionsBackend' = [collectionsBackend EXCEPT
            !.requests = @ \cup {CollectionsRequest("create", name, "form")}]
    /\ UNCHANGED collectionsSocket
    /\ UNCHANGED besideCollections

\* The backend serves a request: the list as it is now, or the creation of
\* a collection whose name is free, which it may also announce on the
\* socket of the client that asked for it.
BackendServes(r, ok, echo) ==
    /\ r \in collectionsBackend.requests /\ r.phase = "sent"
    /\ echo => ok /\ r.op = "create"
    /\ IF r.op = "load"
       THEN /\ collectionsBackend' = [collectionsBackend EXCEPT
                    !.requests = (@ \ {r}) \cup
                        {[r EXCEPT !.phase = "answered", !.ok = ok,
                                   !.body = IF ok
                                            THEN ListFrom(collectionsBackend.collections,
                                                          NameOrder)
                                            ELSE <<>>]}]
            /\ UNCHANGED collectionsSocket
       ELSE /\ ok => collectionsBackend.collections[r.name] = Gone
            /\ collectionsBackend' = [collectionsBackend EXCEPT
                    !.collections[r.name] = IF ok THEN 0 ELSE @,
                    !.requests = (@ \ {r}) \cup
                        {[r EXCEPT !.phase = "answered", !.ok = ok,
                                   !.body = IF ok THEN <<Collection(r.name, 0)>>
                                            ELSE <<>>]}]
            /\ collectionsSocket' =
                    IF echo
                    THEN Broadcast(collectionsSocket,
                            CollectionMessage("collection_created",
                                              Collection(r.name, 0)))
                    ELSE collectionsSocket
    /\ UNCHANGED <<collectionsStore, collectionsEnv>>
    /\ UNCHANGED besideCollections

\* A response arrives: the continuation of loadCollections (and of
\* initialize or refresh, whichever called it) or of createCollection.
\* initialize goes on to connect the /collections socket.
CollectionsResponse(r) ==
    /\ r \in collectionsBackend.requests /\ r.phase = "answered"
    /\ collectionsBackend' = [collectionsBackend EXCEPT !.requests = @ \ {r}]
    /\ LET loaded == IF r.ok THEN loadCollections_ok(collectionsStore, r.body)
                     ELSE loadCollections_failed(collectionsStore)
       IN CASE r.op = "create" ->
                /\ collectionsStore' =
                        IF r.ok THEN createCollection_ok(collectionsStore, r.body[1])
                        ELSE createCollection_failed(collectionsStore)
                /\ UNCHANGED collectionsSocket
            [] r.op = "load" /\ r.by = "refresh" ->
                /\ collectionsStore' = refresh_end(loaded)
                /\ UNCHANGED collectionsSocket
            [] r.op = "load" /\ r.by = "initialize" ->
                /\ collectionsStore' = loaded
                /\ collectionsSocket' =
                        IF collectionsSocket.wsConnected THEN collectionsSocket
                        ELSE [collectionsSocket EXCEPT !.st = "connecting"]
    /\ UNCHANGED collectionsEnv
    /\ UNCHANGED besideCollections

\* The /collections socket opens: connect resolves, initialize sets
\* wsConnected and, in its finally, loading to false.
CollectionsSocketOpen ==
    /\ collectionsSocket.st = "connecting"
    /\ collectionsSocket' = [collectionsSocket EXCEPT !.st = "open",
                                                      !.wsConnected = TRUE]
    /\ collectionsStore' = [collectionsStore EXCEPT !.loading = FALSE]
    /\ UNCHANGED <<collectionsBackend, collectionsEnv>>
    /\ UNCHANGED besideCollections

\* Another client creates, deletes or updates a collection; the backend
\* announces it.
OtherClientChanges(type, name) ==
    /\ collectionsEnv.changes > 0
    /\ collectionsEnv' = [collectionsEnv EXCEPT !.changes = @ - 1]
    /\ LET rev == collectionsBackend.collections[name]
           new == CASE type = "collection_created" -> 0
                    [] type = "collection_deleted" -> Gone
                    [] OTHER -> 1 - rev
       IN /\ (type = "collection_created") = (rev = Gone)
          /\ collectionsBackend' = [collectionsBackend EXCEPT
                    !.collections[name] = new]
          /\ collectionsSocket' =
                Broadcast(collectionsSocket,
                          CollectionMessage(type,
                              Collection(name, IF new = Gone THEN rev ELSE new)))
    /\ UNCHANGED collectionsStore
    /\ UNCHANGED besideCollections

\* ws.onmessage of the /collections socket: the frame is handed to the
\* store's handler.
CollectionsSocketMessage ==
    /\ collectionsSocket.st = "open" /\ collectionsSocket.inbound # <<>>
    /\ collectionsStore' =
            collectionsHandleWebSocketMessage(collectionsStore,
                                              Head(collectionsSocket.inbound))
    /\ collectionsSocket' = [collectionsSocket EXCEPT !.inbound = Tail(@)]
    /\ UNCHANGED <<collectionsBackend, collectionsEnv>>
    /\ UNCHANGED besideCollections

\* The collections page before initialize() is called, with whatever the
\* backend holds.
InitCollections ==
    /\ ChatAtRest
    /\ SearchAtRest
    /\ NotificationsAtRest
    /\ collectionsStore = initialCollectionState
    /\ collectionsSocket = [wsConnected |-> FALSE, st |-> "none", inbound |-> <<>>]
    /\ collectionsBackend \in
            [collections : [CollectionNames -> {Gone, 0}], requests : {{}}]
    /\ collectionsEnv = [initialized |-> FALSE,
                         requests |-> MaxCollectionRequests,
                         changes |-> MaxCollectionChanges]

NextCollections ==
    \/ InitializeCollections
    \/ RefreshCollections
    \/ \E name \in CollectionNames : CreateCollection(name)
    \/ \E r \in collectionsBackend.requests, ok \in BOOLEAN, echo \in BOOLEAN :
            BackendServes(r, ok, echo)
    \/ \E r \in collectionsBackend.requests : CollectionsResponse(r)
    \/ CollectionsSocketOpen
    \/ \E type \in CollectionMessageTypes \ {"collection_stats"},
          name \in CollectionNames : OtherClientChanges(type, name)
    \/ CollectionsSocketMessage

SpecCollections == InitCollections /\ [][NextCollections]_vars

\* ------------------------------------------------------ notification store
NotificationsNet == [list |-> notificationsStore, timers |-> notificationTimers]
SetNotificationsNet(net) ==
    /\ notificationsStore' = net.list
    /\ notificationTimers' = net.timers

NotificationGesture ==
    /\ notificationsEnv.gestures > 0
    /\ notificationsEnv' = [notificationsEnv EXCEPT !.gestures = @ - 1]

Shown(id) == \E i \in 1..Len(notificationsStore) :
                notificationsStore[i].id = id /\ ~notificationsStore[i].dismissed

\* Some part of the application raises a notification.
AddNotification(duration) ==
    /\ notificationsEnv.adds > 0
    /\ notificationsEnv' = [notificationsEnv EXCEPT !.adds = @ - 1,
                                                    !.nextId = @ + 1]
    /\ SetNotificationsNet(
            notificationsAdd(NotificationsNet,
                             Notification(notificationsEnv.nextId, duration)))
    /\ UNCHANGED besideNotifications

\* The user closes a notification that is shown.
DismissNotification(id) ==
    /\ Shown(id)
    /\ NotificationGesture
    /\ SetNotificationsNet(notificationsDismiss(NotificationsNet, id))
    /\ UNCHANGED besideNotifications

DismissAllNotifications ==
    /\ NotificationGesture
    /\ SetNotificationsNet(notificationsDismissAll(NotificationsNet))
    /\ UNCHANGED besideNotifications

RemoveNotification(id) ==
    /\ Shown(id)
    /\ NotificationGesture
    /\ SetNotificationsNet(notificationsRemove(NotificationsNet, id))
    /\ UNCHANGED besideNotifications

ClearNotifications ==
    /\ NotificationGesture
    /\ SetNotificationsNet(notificationsClear(NotificationsNet))
    /\ UNCHANGED besideNotifications

\* A pending callback runs: the auto-dismiss of a notification (dismiss(id),
\* then the entry of timeoutHandlers is deleted), the removal that
\* dismiss(id) delayed, or the clean-up that dismissAll() delayed.
NotificationTimerFires(i) ==
    /\ i \in 1..Len(notificationTimers)
    /\ CanFire(notificationTimers, i)
    /\ LET t == notificationTimers[i]
           rest == RemoveAt(notificationTimers, i)
       IN CASE t.kind = "auto" ->
                SetNotificationsNet(
                    notificationsDismiss([list |-> notificationsStore,
                                          timers |-> rest], t.id))
            [] t.kind = "remove" ->
                SetNotificationsNet(
                    [list |-> notificationsFilterOut(notificationsStore, t.id),
                     timers |-> rest])
            [] t.kind = "removeAll" ->
                SetNotificationsNet(
                    [list |-> dismissAllCleanup(notificationsStore),
                     timers |-> rest])
    /\ UNCHANGED notificationsEnv
    /\ UNCHANGED besideNotifications

InitNotifications ==
    /\ ChatAtRest
    /\ SearchAtRest
    /\ CollectionsAtRest
    /\ notificationsStore = <<>>
    /\ notificationTimers = <<>>
    /\ notificationsEnv = [nextId |-> 1, adds |-> MaxAdds,
                           gestures |-> MaxNotificationGestures]

NotificationIds == 1..MaxAdds

NextNotifications ==
    \/ \E duration \in Durations : AddNotification(duration)
    \/ \E id \in NotificationIds : DismissNotification(id)
    \/ DismissAllNotifications
    \/ \E id \in NotificationIds : RemoveNotification(id)
    \/ ClearNotifications
    \/ \E i \in 1..Len(notificationTimers) : NotificationTimerFires(i)

SpecNotifications == InitNotifications /\ [][NextNotifications]_vars



\* ================================================================= steps
\* A task that delivers an inbound frame of the given kind to the handlers.
ContentStep(x) ==
    \E s \in BagToSet(sockets), m \in Frames :
        m.type = "content" /\ m.text = x /\ SocketMessage(s, m)

CompleteStep ==
    \E s \in BagToSet(sockets), m \in Frames :
        m.type = "complete" /\ adapters[s.ad].handlers # <<>> /\ SocketMessage(s, m)

ErrorStep(e) ==
    \E s \in BagToSet(sockets), m \in Frames :
        /\ m.type = "error" /\ m.text = e
        /\ adapters[s.ad].handlers # <<>> /\ SocketMessage(s, m)

Buffer == chat.streaming.currentContent

C2_CompleteFinalizes ==
    [][CompleteStep
        => /\ Len(chat'.messages) = Len(chat.messages) + 1
           /\ Last(chat'.messages).role = "assistant"
           /\ chat'.streaming = initialStreaming]_vars

\* The sockets that are open, and those of one adapter (one path).
OpenSockets == {s \in BagToSet(sockets) : s.st = "open"}
OpenCount(a) ==
    BagCardinality([s \in {x \in OpenSockets : x.ad = a} |-> CopiesIn(s, sockets)])

\* C3: while a session is current, at most one chat connection is live and
\* it belongs to the current session: a change of the current session (a
\* session selected in the sidebar, a new session created) disconnects the
\* previous session's connection before the new one is opened.
C3_OneLiveConnectionOfCurrentSession ==
    chat.currentSession # NoSession
    => /\ \A s \in OpenSockets : adapters[s.ad].sessionId = chat.currentSession
       /\ BagCardinality([s \in OpenSockets |-> CopiesIn(s, sockets)]) <= 1

\* C4: for every path, the reconnect attempts made since the last successful
\* open (or the caller's connect) never exceed 5; this counts the attempts
\* of the adapter's loop and of the transport's loop on a chat path together.
C4_AtMostFiveReconnectAttempts ==
    \A a \in AdapterIds : adapters[a].sinceOpen <= maxReconnectAttempts

\* Tasks of one adapter's path: a reconnect timer firing (a reconnect attempt,
\* which creates a socket), a frame handed to a registered handler.
ReconnectStep(a) ==
    \E t \in BagToSet(timers) :
        t.ad = a /\ (TransportReconnectTimer(t) \/ ChatReconnectTimer(t))

DeliveryStep(a) ==
    \E s \in BagToSet(sockets), m \in Frames :
        s.ad = a /\ adapters[a].handlers # <<>> /\ SocketMessage(s, m)

\* C5: after ChatWebSocket.disconnect() has returned and until connect is
\* called again (never, once the page is destroyed), the path sees no
\* reconnect attempt, no new socket and no frame delivered to a handler, in
\* whatever state disconnect was called.
C5_DisconnectIsFinal ==
    [][(page = "destroyed" /\ chatWebSocket # NoAdapter)
        => ~(ReconnectStep(chatWebSocket) \/ DeliveryStep(chatWebSocket))]_vars

\* C6: after any sequence of connect calls for one path, at most one socket
\* of the path is open, and the handlers registered for the path are those
\* of the connect call whose socket is the registered one.
C6_ConnectIdempotent ==
    \A a \in AdapterIds :
        /\ OpenCount(a) <= 1
        /\ adapters[a].conn # NoConn
           => \A i \in 1..Len(adapters[a].handlers) :
                  adapters[a].handlers[i] = adapters[a].conn.h

\* Whether the socket of the page's chat connection is open.
PageSocketOpen == chatWebSocket # NoAdapter /\ OpenCount(chatWebSocket) > 0

\* C7: whenever the chat socket of the page is not open, the store's
\* connectionStatus is not "connected", the page's isConnected is false, and
\* a send request is refused (no user message is added).
C7_NotOpenIsShown ==
    ~PageSocketOpen
    => /\ chat.connectionStatus # "connected"
       /\ ~isConnected
       /\ SendRefused

\* C8: every `error` event with text e adds exactly one assistant message
\* whose content contains e, resets the streaming state to empty, sets
\* lastError to e and raises one notification of type error.
C8_ErrorEventHandled ==
    [][\A e \in ErrorTexts :
        ErrorStep(e)
        => /\ Len(chat'.messages) = Len(chat.messages) + 1
           /\ Last(chat'.messages).role = "assistant"
           /\ IsSuffix(e, Last(chat'.messages).content)
           /\ chat'.streaming = initialStreaming
           /\ chat'.lastError = e
           /\ notified' = <<ErrorNotification("Chat Error")>>]_vars

\* A send request that is accepted: addUserMessage begins a user turn.
UserTurnStep == ~SendRefused /\ \E m \in UserTexts : HandleSendMessage(m)

\* C9: when a user turn begins, the streaming content, the status text and
\* the provisional sources are empty.
C9_BufferEmptyAtTurnStart ==
    [][UserTurnStep
        => /\ chat.streaming.currentContent = <<>>
           /\ chat.streaming.statusMessage = <<>>
           /\ chat.streaming.sources = <<>>]_vars

\* C10: in every transition the streaming buffer stays as it is, or is
\* extended at its end by the arriving fragment (the old content is a prefix
\* of the new), or becomes empty; it becomes empty only in a task that
\* delivers a `complete` or an `error` event.
C10_BufferAppendOrReset ==
    [][\/ Buffer' = Buffer
       \/ \E x \in Fragments :
             ContentStep(x) /\ IsPrefix(Buffer, Buffer') /\ IsSuffix(x, Buffer')
       \/ Buffer' = <<>> /\ (CompleteStep \/ \E e \in ErrorTexts : ErrorStep(e))]_vars

\* C10's case: the buffer has been extended twice.
C10_Witness == Buffer = <<"b", "a">>

\* The transitions of connectionStatus the protocol allows.
StatusTransitions ==
    {<<"disconnected", "connecting">>, <<"connecting", "connected">>,
     <<"connecting", "error">>, <<"connecting", "disconnected">>,
     <<"connected", "disconnected">>, <<"connected", "error">>,
     <<"error", "connecting">>}

\* C11: the store's connectionStatus changes only along disconnected ->
\* connecting -> connected -> (disconnected | error): `connected` is entered
\* only from `connecting`, `error` only in a task in which a handshake fails,
\* and `error` is left only for `connecting`.
C11_StatusStateMachine ==
    [][chat'.connectionStatus # chat.connectionStatus
        => /\ <<chat.connectionStatus, chat'.connectionStatus>> \in StatusTransitions
           /\ chat'.connectionStatus = "error"
              => \E s \in BagToSet(sockets) : SocketFail(s)]_vars

\* The steps of initializeSession: its loadSessions answering (the choice),
\* and the chosen loadSession or createNewSession answering.
InitRequests == {r \in pending : r.by = "init"}

\* The caller of initializeSession (onMount) goes on: it opens a connection
\* for the session that is now current.
MountGoesOn ==
    \E s \in BagToSet(sockets') :
        /\ s.origin = "page" /\ s.st = "connecting"
        /\ s.ad = chatWebSocket'
        /\ adapters'[s.ad].sessionId = chat'.currentSession
        /\ CopiesIn(s, sockets') > CopiesIn(s, sockets)

\* The session the claim's rule picks, NoSession standing for "create one".
ClaimedChoice(sessionId, last, sessions) ==
    CASE sessionId # NoSession -> sessionId
      [] sessionId = NoSession /\ last # NoSession /\ InSeq(last, sessions) -> last
      [] sessionId = NoSession /\ ~(last # NoSession /\ InSeq(last, sessions))
            /\ sessions # <<>> -> Head(sessions)
      [] OTHER -> NoSession

\* C12: initializeSession picks the session with the given id if one was
\* passed, else the remembered session if it is among the loaded sessions,
\* else the first loaded session, else it creates one; when it resolves that
\* session is current (never null) and the caller goes on; when the chosen
\* load or create fails it rejects: nothing becomes current and the caller
\* does not go on.
C12_InitializeSession ==
    [][/\ \A id \in SessionIds \cup {NoSession} :
            SessionToLoad(id, lastSessionId, chat.sessions)
                = ClaimedChoice(id, lastSessionId, chat.sessions)
       /\ \A r \in InitRequests :
            /\ (r.op = "loadSessions" /\ \E ok \in BOOLEAN : LoadSessionsResponse(r, ok))
               => LET want == ClaimedChoice(PropSessionId, lastSessionId, chat'.sessions) IN
                  pending' \ pending =
                      {IF want # NoSession THEN Request("load", want, "init")
                       ELSE Request("create", NoSession, "init")}
            /\ (r.op = "load" /\ \E h \in ServerHistories(r.id) : LoadSessionResponse(r, TRUE, h))
               => /\ chat'.currentSession = r.id
                  /\ lastSessionId' = r.id
                  /\ MountGoesOn
            /\ (r.op = "create" /\ CreateSessionResponse(r, TRUE))
               => /\ chat'.currentSession # NoSession
                  /\ ~InSeq(chat'.currentSession, serverSessions)
                  /\ lastSessionId' = chat'.currentSession
                  /\ MountGoesOn
            /\ (\/ r.op = "load" /\ LoadSessionResponse(r, FALSE, <<>>)
                \/ r.op = "create" /\ CreateSessionResponse(r, FALSE))
               => /\ chat'.currentSession = chat.currentSession
                  /\ chat'.lastError = ApiErrorText
                  /\ chatWebSocket' = chatWebSocket /\ sockets' = sockets]_vars

\* C12's case: initializeSession has resumed the remembered session, which
\* is not the first of the loaded sessions.
C12_Witness ==
    /\ InitRequests = {}
    /\ chat.sessions = <<2, 1>>
    /\ chat.currentSession = 1
    /\ lastSessionId = 1
    /\ chatWebSocket # NoAdapter
    /\ budget.events = MaxEvents

\* ------------------------------------------------------------------- C13
\* The step of handleSendMessage that passes its guard: the user message is
\* stored and chatWebSocket.sendMessage is called.
SendStep == ~SendRefused /\ \E m \in UserTexts : HandleSendMessage(m)

HasEnvelope(f) ==
    f.type # Undefined /\ f.data # Undefined /\ f.timestamp # Undefined

AllEnveloped(frames) == \A i \in 1..Len(frames) : HasEnvelope(frames[i])

\* C13: every frame the client transmits has the three top-level fields
\* type, data and timestamp: the `message` frame a send step transmits and
\* the `ping` a keepalive tick transmits.
C13_FramesHaveEnvelope ==
    [][/\ SendStep => AllEnveloped(SendMessageFrames(Net, chatWebSocket))
       /\ \A a \in AdapterIds : AllEnveloped(TickFrames(Net, a))]_vars

\* ------------------------------------------------------------------- C14
\* C14: sending while the path has no open connection is a no-op: a send
\* step of the page whose adapter is not connected transmits no frame,
\* raises no "Send Failed" notification (nothing was thrown) and leaves the
\* connection map, the handlers and the reconnect counters as they were; a
\* keepalive ping or a typing indicator would transmit nothing either.
C14_SendWhileClosedIsNoOp ==
    [][/\ (SendStep /\ ~TransportIsConnected(Net, chatWebSocket))
            => /\ SendMessageFrames(Net, chatWebSocket) = <<>>
               /\ notified' = <<>>
               /\ adapters' = adapters
               /\ sockets' = sockets
               /\ timers' = timers
       /\ \A a \in AdapterIds :
            ~TransportIsConnected(Net, a)
                => PingFrames(Net, a) = <<>> /\ TypingFrames(Net, a) = <<>>]_vars

\* The user's text was stored by a send step although the page's adapter has
\* lost its connection (the page's isConnected flag is stale).
C14_Witness ==
    /\ chatWebSocket # NoAdapter
    /\ ~TransportIsConnected(Net, chatWebSocket)
    /\ isConnected
    /\ budget.gestures < MaxGestures
    /\ \E i \in 1..Len(chat.messages) : chat.messages[i].role = "user"
    /\ BagToSet(sockets) = {} /\ BagToSet(timers) = {}

\* ------------------------------------------------------------------- C15
\* A `connected` frame handed to the registered handler(s) of adapter a.
ConnectedStep(a) ==
    \E s \in BagToSet(sockets), m \in Frames :
        /\ s.ad = a /\ m.type = "connected" /\ adapters[a].handlers # <<>>
        /\ SocketMessage(s, m)

\* The page calls chatWebSocket.disconnect(): on destroy, or before it
\* connects to a session it has just created.
DisconnectStep ==
    /\ chatWebSocket # NoAdapter
    /\ \/ Destroy
       \/ \E r \in pending :
            r.op = "create" /\ r.by = "page" /\ CreateSessionResponse(r, TRUE)

\* C15: keepalive.  Once `connected` is received the adapter has a keepalive
\* interval, whose tick transmits one `ping` while the path is connected and
\* nothing while it is not; the tick that finds the path not connected
\* cancels the interval, and so does disconnect; an adapter never has more
\* than one interval, also after repeated `connected` frames.
C15_Keepalive ==
    [][\A a \in AdapterIds :
        /\ adapters[a].pingInterval <= 1 /\ adapters'[a].pingInterval <= 1
        /\ ConnectedStep(a) => adapters'[a].pingInterval = 1
        /\ (adapters[a].pingInterval > 0 /\ TransportIsConnected(Net, a))
                => TickFrames(Net, a) = <<OutMessage("ping")>>
        /\ ~TransportIsConnected(Net, a) => TickFrames(Net, a) = <<>>
        /\ PingTick(a) => adapters'[a].pingInterval = 0
        /\ (DisconnectStep /\ a = chatWebSocket)
                => adapters'[a].pingInterval = 0]_vars

\* The page's adapter is connected and has its keepalive interval after the
\* server has sent at least two frames on the path.
C15_Witness ==
    /\ chatWebSocket # NoAdapter
    /\ TransportIsConnected(Net, chatWebSocket)
    /\ adapters[chatWebSocket].pingInterval = 1
    /\ budget.frames <= MaxFrames - 2
    /\ chat.streaming = initialStreaming

\* ------------------------------------------------------------------- C16
\* The task of an open socket s that receives payload p.
ReceiveStep(s, p) == s.st = "open" /\ SocketMessage(s, p)

\* C16: a payload that does not parse is dropped (no handler is called, the
\* store, the page and the connections stay as they were, so later frames
\* are delivered as before); a frame whose handler throws is still handed
\* to every registered handler of the path and closes nothing.
C16_BadFramesAreContained ==
    [][\A s \in BagToSet(sockets) :
        LET handlers == adapters[s.ad].handlers IN
        /\ ReceiveStep(s, Garbage)
            => /\ onmessage(PageState, handlers, Garbage).invoked = 0
               /\ UNCHANGED <<chat, isTyping, isConnected, chatWebSocket,
                              adapters, sockets, timers, obs>>
        /\ ReceiveStep(s, NullFrame)
            => /\ onmessage(PageState, handlers, NullFrame).invoked = Len(handlers)
               /\ UNCHANGED <<adapters, sockets, timers>>]_vars

\* A path with two registered handlers is connected and has received a
\* payload that left the store's streaming state untouched.
C16_Witness ==
    \E a \in AdapterIds :
        /\ Len(adapters[a].handlers) = 2
        /\ TransportIsConnected(Net, a)
        /\ budget.frames < MaxFrames
        /\ chat.streaming = initialStreaming

\* ------------------------------------------------------------------- C17
\* The timers of adapter a's own reconnect loop that a step has set.
NewAdapterTimers(a) ==
    LET added == timers' (-) timers IN
    [t \in {x \in BagToSet(added) : x.kind = "adapter" /\ x.ad = a}
        |-> CopiesIn(t, added)]

ClaimedAdapterDelay(n) == IF 1000 * 2^n <= 30000 THEN 1000 * 2^n ELSE 30000

\* C17: the adapter's reconnect loop.  Its counter never exceeds 5; a step
\* that sets retry timers sets one per counted retry, the n-th retry since
\* the counter was zero with the delay min(1000 * 2^n, 30000) ms; with five
\* retries counted no further retry is set.
C17_AdapterBackoff ==
    [][\A a \in AdapterIds :
        LET c == adapters[a].reconnectAttempts
            new == NewAdapterTimers(a)
        IN /\ c <= chatMaxReconnectAttempts
           /\ new # EmptyBag
              => /\ adapters'[a].reconnectAttempts <= chatMaxReconnectAttempts
                 /\ BagCardinality(new) = adapters'[a].reconnectAttempts - c
                 /\ {t.delay : t \in BagToSet(new)}
                        = {ClaimedAdapterDelay(n) :
                              n \in (c + 1)..adapters'[a].reconnectAttempts}
                 /\ \A t \in BagToSet(new) : CopiesIn(t, new) = 1
           /\ c = chatMaxReconnectAttempts => new = EmptyBag]_vars

\* All five retries of the page's adapter have been made and have failed:
\* six connect calls, no retry pending, no handshake of the loop in progress.
C17_Witness ==
    /\ chatWebSocket # NoAdapter
    /\ adapters[chatWebSocket].reconnectAttempts = chatMaxReconnectAttempts
    /\ adapters[chatWebSocket].calls = chatMaxReconnectAttempts + 1
    /\ \A t \in BagToSet(timers) : t.kind # "adapter"
    /\ \A s \in BagToSet(sockets) : s.origin = "transport"

\* ------------------------------------------------------------------- C18
\* The timers of the transport's reconnect loop for a's path that a step
\* has set.
NewTransportTimers(a) ==
    {t \in BagToSet(timers' (-) timers) : t.kind = "transport" /\ t.ad = a}

\* C18: the transport's reconnect attempt is set with the delay
\* 1000 * 2^n ms, uncapped, where n is the path's attempt counter at that
\* moment, and n is the number of reconnect attempts the transport has
\* already made for the path since its last successful open (so that the
\* delays of consecutive failed attempts double).
C18_TransportBackoff ==
    [][\A a \in AdapterIds : \A t \in NewTransportTimers(a) :
        /\ t.attempts = adapters[a].attempts
        /\ t.delay = 1000 * 2^t.attempts
        /\ t.attempts = adapters[a].made]_vars

\* ------------------------------------------------------------------- C19
\* C19: a successful (re)connect resets the counters.  The step in which a
\* socket opens leaves the path's counter at 0, and the step in which the
\* adapter handles `connected` leaves the adapter's counter at 0.  While a
\* socket is registered for the path the counter stays 0, and a closure or
\* failed handshake that comes before the transport has made any attempt
\* since the last open sets its reconnect attempt from counter 0, with the
\* base delay.
C19_CountersResetOnSuccess ==
    [][\A a \in AdapterIds :
        /\ (\E s \in BagToSet(sockets) : s.ad = a /\ SocketOpen(s))
                => adapters'[a].attempts = 0
        /\ ConnectedStep(a) => adapters'[a].reconnectAttempts = 0
        /\ TransportIsConnected(Net, a) => adapters[a].attempts = 0
        /\ adapters[a].made = 0
                => \A t \in NewTransportTimers(a) :
                      t.attempts = 0 /\ t.delay = reconnectDelay]_vars

\* The page's adapter has handled `connected` (its keepalive runs) on a
\* socket opened by a reconnect, and its counter is 0 although a retry it
\* set after the failed first handshake is still pending.
C19_Witness ==
    /\ chatWebSocket # NoAdapter
    /\ TransportIsConnected(Net, chatWebSocket)
    /\ adapters[chatWebSocket].pingInterval = 1
    /\ adapters[chatWebSocket].reconnectAttempts = 0
    /\ adapters[chatWebSocket].attempts = 0
    /\ adapters[chatWebSocket].conn.origin = "transport"
    /\ \E t \in BagToSet(timers) : t.kind = "adapter" /\ t.ad = chatWebSocket

\* ------------------------------------------------------------------- C20
\* The task in which deleteSession(id) settles.
DeleteResolves(id) ==
    \E r \in pending : r.op = "delete" /\ r.id = id /\ DeleteSessionResponse(r, TRUE)

DeleteRejects(id) ==
    \E r \in pending : r.op = "delete" /\ r.id = id /\ DeleteSessionResponse(r, FALSE)

\* C20: when deleteSession(id) resolves, the list has lost exactly id and
\* currentSession is not id; if id was current, currentSession is null, the
\* transcript is empty and no session is created in its place; otherwise
\* currentSession and the transcript are as before.  When it rejects, the
\* store is as before.
C20_DeleteSession ==
    [][\A id \in SessionIds :
        /\ DeleteResolves(id)
            => /\ ~InSeq(id, chat'.sessions)
               /\ chat'.sessions = RemoveId(chat.sessions, id)
               /\ chat'.currentSession # id
               /\ IF chat.currentSession = id
                  THEN /\ chat'.currentSession = NoSession
                       /\ chat'.messages = <<>>
                       /\ pending' \subseteq pending
                       /\ createdIds' = createdIds
                  ELSE /\ chat'.currentSession = chat.currentSession
                       /\ chat'.messages = chat.messages
        /\ DeleteRejects(id) => chat' = chat]_vars

\* The current session, whose transcript had been loaded, has been deleted:
\* nothing is current, the transcript is empty, the other session is listed.
C20_Witness ==
    /\ chat.currentSession = NoSession
    /\ chat.messages = <<>>
    /\ chat.sessions = <<2>>
    /\ serverSessions = <<2>>
    /\ lastSessionId = 1
    /\ budget.gestures = 0
    /\ pending = {}

\* ------------------------------------------------------------------- C21
\* C21: addUserMessage.  Without a current session it throws and the store
\* is as before.  With one, the result differs from the store only in the
\* transcript, which has gained one user message at its end: temporary id,
\* the current session's id, the given content.  The send step of the page
\* stores exactly that result and starts no request.
C21_AddUserMessage ==
    [][\A content \in UserTexts :
        LET after == addUserMessage(chat, content) IN
        /\ chat.currentSession = NoSession
            => addUserMessageThrows(chat) /\ after = chat
        /\ chat.currentSession # NoSession
            => /\ ~addUserMessageThrows(chat)
               /\ Len(after.messages) = Len(chat.messages) + 1
               /\ SubSeq(after.messages, 1, Len(chat.messages)) = chat.messages
               /\ Last(after.messages).id = "temp"
               /\ Last(after.messages).role = "user"
               /\ Last(after.messages).session_id = chat.currentSession
               /\ Last(after.messages).content = content
               /\ [after EXCEPT !.messages = chat.messages] = chat
        /\ (~SendRefused /\ HandleSendMessage(content))
            => chat' = after /\ pending' = pending]_vars

\* A send step has stored the user's text behind the transcript that was
\* loaded from the server, while a request was still in flight.
C21_Witness ==
    /\ chat.currentSession # NoSession
    /\ Len(chat.messages) = 2
    /\ chat.messages[1].id = "srv"
    /\ chat.messages[2].id = "temp"
    /\ chat.messages[2].session_id = chat.currentSession
    /\ pending # {}

\* ------------------------------------------------------------------- C22
\* executeSearch settles for call c: its search succeeded and the history
\* update went through (with the storage write accepted or not), or it
\* ended in the catch block.
SearchCompletes(c, setItemOk) ==
    ~SliceThrows(searchState.history) /\ SearchResponse(c, TRUE, setItemOk)

SearchEndsInFailure(c) ==
    \/ SearchResponse(c, FALSE, TRUE)
    \/ SliceThrows(searchState.history) /\ SearchResponse(c, TRUE, TRUE)

SearchIsRefused == SearchRefused(searchState) /\ ExecuteSearch

\* The history after a completed search: the new entry at the head, behind
\* it the entries of before in their order, 50 entries at most.
HistoryUpdated(c) ==
    LET old == searchState.history.items
        new == searchState'.history.items
    IN /\ searchState'.history.kind = "array"
       /\ Len(new) <= 50
       /\ Len(new) = IF Len(old) >= 50 THEN 50 ELSE Len(old) + 1
       /\ new[1].query = c.query
       /\ \A i \in 2..Len(new) : new[i] = old[i - 1] /\ new[1].id > new[i].id

HistoryKept ==
    searchState'.history = searchState.history /\ savedHistory' = savedHistory

\* C22 as stated: after any successful executeSearch the history holds at
\* most 50 entries, newest first, and the copy in local storage equals it;
\* a refused (blank) or failed search leaves both as they were.
C22_HistoryBoundedAndPersisted ==
    [][/\ \A c \in searches, setItemOk \in BOOLEAN :
            SearchCompletes(c, setItemOk)
                => /\ HistoryUpdated(c)
                   /\ savedHistory' = JSONstringify(searchState'.history)
       /\ \A c \in searches : SearchEndsInFailure(c) => HistoryKept
       /\ SearchIsRefused => HistoryKept]_vars

\* C22 amended: as above, but the copy in local storage equals the new
\* history only if the storage accepted the write; if it did not, the copy
\* is the one of before.
C22_HistoryBounded ==
    [][/\ \A c \in searches :
            /\ SearchCompletes(c, TRUE)
                => /\ HistoryUpdated(c)
                   /\ savedHistory' = JSONstringify(searchState'.history)
            /\ SearchCompletes(c, FALSE)
                => /\ HistoryUpdated(c)
                   /\ savedHistory' = savedHistory
       /\ \A c \in searches : SearchEndsInFailure(c) => HistoryKept
       /\ SearchIsRefused => HistoryKept]_vars

\* A search has completed on a full history: 50 entries, the new one at the
\* head, the oldest of before gone, and the stored copy is the same list.
C22_Witness ==
    /\ searchState.history.kind = "array"
    /\ Len(searchState.history.items) = 50
    /\ searchState.history.items[1].id = 1
    /\ searchState.history.items[50] = OldHistory(50)[49]
    /\ savedHistory = JSONstringify(searchState.history)

\* ------------------------------------------------------------------- C23
\* C23: whatever the browser holds under 'search_history' when the module
\* loads (no key, a text that does not parse, the text of a JSON value that
\* is not a list), the history is a list from start-up on, a search the
\* backend answers never ends in failure, and clearHistory leaves the empty
\* list.
C23_CorruptDataIsEmpty ==
    [][/\ searchState.history.kind = "array"
       /\ \A c \in searches, setItemOk \in BOOLEAN :
            SearchResponse(c, TRUE, setItemOk)
                => /\ searchState'.error = "null"
                   /\ searchState'.results # NoResults
       /\ ClearHistory => searchState'.history = JArray(<<>>)]_vars

\* The part of C23 the code does keep: a missing key, an empty text and a
\* text that does not parse leave the empty history of the initial state.
C23_UnparsableIsEmpty ==
    [][/\ (savedHistory \in {Absent, EmptyText, GarbageText}
              /\ searches = {} /\ searchEnv.now = 1)
            => searchState.history = JArray(<<>>)
       /\ ClearHistory => searchState'.history = JArray(<<>>)]_vars

\* A search the backend has answered ended in the catch block, because the
\* stored text was a JSON value other than a list.
C23_Failure ==
    /\ searchState.history \in NotLists
    /\ searchState.error = "TypeError"
    /\ searchState.results = NoResults

\* ------------------------------------------------------------------- C24
\* The path of adapter a has been reconnected by the transport's own loop:
\* the registered socket is one that attemptReconnect's timer created.
TransportReconnected(a) ==
    adapters[a].conn # NoConn /\ adapters[a].conn.origin = "transport"

\* How often handler h stands in the handler list of a's path.
HandlerCount(a, h) ==
    Cardinality({i \in 1..Len(adapters[a].handlers) : adapters[a].handlers[i] = h})

\* C24: once the transport has reconnected a path after abnormal closures,
\* the path's handler list holds the handler given to connect once, so a
\* `content` frame that arrives appends its fragment to the streaming
\* buffer once.
C24_OneDeliveryAfterReconnect ==
    [][\A a \in AdapterIds :
        TransportReconnected(a)
        => /\ HandlerCount(a, adapters[a].conn.h) = 1
           /\ \A s \in OpenSockets, m \in Frames :
                (s.ad = a /\ m.type = "content" /\ SocketMessage(s, m))
                => Buffer' = Buffer \o m.text]_vars

\* A fragment that arrived once on a reconnected path stands twice in the
\* streaming buffer.
C24_Failure ==
    /\ \E a \in AdapterIds : TransportReconnected(a) /\ OpenCount(a) = 1
    /\ Buffer = <<"a", "a">>
    /\ budget.frames = MaxFrames - 1

\* ------------------------------------------------------------------- C25
\* The `close` event of a socket that connect replaced (closed with code
\* 1000 by disconnect) is delivered.
ReplacedSocketCloses(s) == s.st = "closing" /\ SocketClosed(s)

\* C25: when the close event of a replaced socket is delivered after the new
\* socket of the path has opened and been registered, the new socket stays
\* the path's entry of the connection map, so isConnected(path) stays true
\* and send(path) still transmits.
C25_ReplacedCloseKeepsNewSocket ==
    [][\A s \in BagToSet(sockets) :
        (ReplacedSocketCloses(s) /\ TransportIsConnected(Net, s.ad))
        => /\ adapters'[s.ad].conn = adapters[s.ad].conn
           /\ TransportIsConnected([adapters |-> adapters'], s.ad)]_vars

\* The only socket of a path is open, no close is outstanding, and the path
\* has no entry in the connection map.
C25_Failure ==
    \E a \in AdapterIds :
        /\ OpenCount(a) = 1
        /\ \A s \in BagToSet(sockets) : s.ad = a => s.st = "open"
        /\ ~TransportIsConnected(Net, a)

\* ------------------------------------------------------------------- C26
\* A new session has been requested in this step (the page's handleNewSession
\* has started createNewSession).
NewSessionRequested ==
    \E r \in pending' \ pending : r.op = "create"

\* C26: when the confirmed delete of the sidebar resolves for the session
\* that was current, the sidebar requests a new session, so that the chat
\* does not stay without a current session; when it resolves for another
\* session, no new session is requested.
C26_DeleteOfCurrentRequestsNewSession ==
    [][\A id \in SessionIds :
        DeleteResolves(id)
        => IF chat.currentSession = id
           THEN NewSessionRequested
           ELSE ~NewSessionRequested]_vars

\* The current session has been deleted and the page is at rest with no
\* current session: nothing is pending that would create one.
C26_Failure ==
    /\ page = "mounted"
    /\ chat.currentSession = NoSession
    /\ lastSessionId = 1
    /\ ~InSeq(1, serverSessions)
    /\ pending = {}
    /\ notified = <<SuccessNotification("Deleted")>>

\* ------------------------------------------------------------------- C27
\* C27: while any executeSearch call is waiting for its response the loading
\* flag is true, and once every call has completed, the results shown (and
\* the response they came with) are those of the call that was issued last,
\* in whatever order the responses arrived.
C27_LastIssuedSearchWins ==
    /\ searches # {} => searchState.loading
    /\ (searches = {} /\ searchState.results # NoResults)
            => searchState.results = ResponseOf(searchEnv.issued)

\* Two searches overlapped and the response of the later one arrived first:
\* the page shows the results and the query of the earlier call.
C27_Failure ==
    /\ searches = {}
    /\ searchEnv.issued = MaxSearches - 1
    /\ searchState.results = ResponseOf(MaxSearches)
    /\ ~searchState.loading
    /\ searchState.history.kind = "array"
    /\ Len(searchState.history.items) = 2

\* ------------------------------------------------------------------- C28
\* C28: the collections list of the store never holds two entries of the
\* same name, however the responses of createCollection and loadCollections
\* and the collection_created / _deleted / _updated frames interleave.
C28_UniqueCollectionNames ==
    \A i, j \in 1..Len(collectionsStore.collections) :
        i # j => collectionsStore.collections[i].name
                    # collectionsStore.collections[j].name

\* The page is at rest (nothing requested, no frame on its way) and lists a
\* collection twice that the backend holds once.
C28_Failure ==
    /\ collectionsBackend.requests = {}
    /\ collectionsSocket.inbound = <<>>
    /\ collectionsBackend.collections["a"] # Gone
    /\ Len(SelectSeq(collectionsStore.collections, LAMBDA c : c.name = "a")) = 2

\* ------------------------------------------------------------------- C29
\* The delayed clean-up of a dismissAll() call runs.
DismissAllCleanupRuns(i) ==
    /\ i \in 1..Len(notificationTimers)
    /\ notificationTimers[i].kind = "removeAll"
    /\ NotificationTimerFires(i)

\* C29: the clean-up of dismissAll() removes the notifications dismissAll()
\* dismissed; a notification added after the call, which is not dismissed
\* when the clean-up runs, stays in the store as it is.
C29_DismissAllSparesLaterNotifications ==
    [][\A i \in 1..Len(notificationTimers) :
        DismissAllCleanupRuns(i)
        => \A k \in 1..Len(notificationsStore) :
              ~notificationsStore[k].dismissed
              => \E m \in 1..Len(notificationsStore') :
                    notificationsStore'[m] = notificationsStore[k]]_vars

\* A notification that was added after dismissAll() has left the store
\* without being dismissed: its auto-dismiss is still pending.
C29_Failure ==
    /\ notificationsStore = <<>>
    /\ \E i \in 1..Len(notificationTimers) :
            notificationTimers[i].kind = "auto"
    /\ \A i \in 1..Len(notificationTimers) :
            notificationTimers[i].kind # "remove"
    /\ notificationsEnv.gestures = MaxNotificationGestures - 1

\* ------------------------------------------------------------------- C30
\* C30: whenever a session is current, the id stored under the last-used
\* key is the id of the current session.
C30_LastUsedIsCurrent ==
    chat.currentSession # NoSession => lastSessionId = chat.currentSession

\* The page resumed session 1, the remembered one, and the user has then
\* switched to session 2 in the sidebar: session 2 is current and remembered.
C30_Witness ==
    /\ serverSessions = <<2, 1>>
    /\ chat.currentSession = 2
    /\ lastSessionId = 2
    /\ budget.gestures = 0
    /\ pending = {}

====
